---- MODULE Spec2Model ----
(***************************************************************************)
(* A model of the frappe_dwf ingestion code: the IAN / MPPS / UPS          *)
(* handlers of frappe_dwf/frappe_dwf/api.py and ian_mpps_handlers.py, the  *)
(* signature verifier, and the inbound message gateway of                  *)
(* frappe_dwf/api.py.                                                      *)
(*                                                                         *)
(* Representation.  Scalar fields (identifiers, actors, statuses) are      *)
(* strings; Python's None is the reserved value None.  A text that the     *)
(* code takes apart (a UID list, a header value, a request body) is a      *)
(* sequence of tokens, each token an indivisible run of characters.  A     *)
(* table of the store is the sequence of its rows in insertion order.      *)
(***************************************************************************)
EXTENDS Naturals, Sequences, FiniteSets, TLC

VARIABLES
    secret,     \* frappe.get_conf().get("dwf_api_secret")
    ian,        \* rows of Instance Availability Notification
    pps,        \* rows of Performed Procedure Step
    ups,        \* rows of Unified Procedure Step
    sps,        \* rows of Scheduled Procedure Step
    sop,        \* rows of SOPInstance
    message,    \* rows of Message
    queue,      \* background tasks enqueued and not yet acknowledged
    writes,     \* the store writes (insert / save) made by the last call
    call,       \* the last call: its operation, its arguments, its outcome
    running     \* the calls in progress when calls are made side by side

vars == <<secret, ian, pps, ups, sps, sop, message, queue, writes, call, running>>

store == <<ian, pps, ups, sps, sop, message>>

-----------------------------------------------------------------------------
(* Python values *)

None == "<None>"

NOW == "<now>"

\* (mutant) a test for None in place of the truth value
Truthy_IsNotNone(s) == s # None

\* bool(s) of a str-or-None value
Truthy(s) == s # None /\ s # ""

\* a or b
Or(a, b) == IF Truthy(a) THEN a ELSE b

\* dict.get(key, default) of a value that is None when the key is absent
GetDefault(v, default) == IF v = None THEN default ELSE v

-----------------------------------------------------------------------------
(* Texts as token sequences *)

RECURSIVE Cat(_)
Cat(s) == IF s = <<>> THEN "" ELSE Head(s) \o Cat(Tail(s))

\* str.strip() for the blank token " "
RECURSIVE LStrip(_)
LStrip(s) == IF s # <<>> /\ Head(s) = " " THEN LStrip(Tail(s)) ELSE s

RECURSIVE RStrip(_)
RStrip(s) ==
    IF s # <<>> /\ s[Len(s)] = " " THEN RStrip(SubSeq(s, 1, Len(s) - 1)) ELSE s

Strip(s) == RStrip(LStrip(s))

\* str.split(d): the pieces between the occurrences of token d
RECURSIVE SplitAcc(_, _, _)
SplitAcc(s, d, cur) ==
    IF s = <<>> THEN <<cur>>
    ELSE IF Head(s) = d THEN <<cur>> \o SplitAcc(Tail(s), d, <<>>)
    ELSE SplitAcc(Tail(s), d, Append(cur, Head(s)))

Split(s, d) == SplitAcc(s, d, <<>>)

\* d.join(items)
RECURSIVE Join(_, _)
Join(items, d) ==
    IF items = <<>> THEN <<>>
    ELSE IF Len(items) = 1 THEN items[1]
    ELSE items[1] \o <<d>> \o Join(Tail(items), d)

\* [u.strip() for u in items if u.strip()]
RECURSIVE StripNonEmpty(_)
StripNonEmpty(items) ==
    IF items = <<>> THEN <<>>
    ELSE IF Strip(Head(items)) = <<>> THEN StripNonEmpty(Tail(items))
    ELSE <<Strip(Head(items))>> \o StripNonEmpty(Tail(items))

\* [u.strip() for u in (text or '').split(',') if u.strip()]
SplitComma(text) == StripNonEmpty(Split(text, ","))

-----------------------------------------------------------------------------
(* Texts that may be None *)

TextNone == <<None>>

TruthyText(t) == t # TextNone /\ t # <<>>

TextOr(a, b) == IF TruthyText(a) THEN a ELSE b

-----------------------------------------------------------------------------
(* A UID list argument: absent, a delimited text, or a list of texts *)

NoUids == [kind |-> "none", items |-> <<>>]

UidText(t) == [kind |-> "str", items |-> <<t>>]

UidList(l) == [kind |-> "list", items |-> l]

TruthyUids(u) ==
    \/ u.kind = "str" /\ u.items[1] # <<>>
    \/ u.kind = "list" /\ u.items # <<>>

UidsOr(a, b) == IF TruthyUids(a) THEN a ELSE b

\* the text of a str-or-None UID argument, '' for None
UidsOrEmpty(u) == IF u.kind = "str" THEN u.items[1] ELSE <<>>

\* utils.normalize_uids: one canonical comma-separated text, entries trimmed,
\* empty entries dropped
normalize_uids(u) ==
    IF u.kind = "str" THEN Join(SplitComma(u.items[1]), ",")
    ELSE IF u.kind = "list" THEN Join(StripNonEmpty(u.items), ",")
    ELSE <<>>

\* utils.split_uids: the entries of the canonical text
split_uids(text) == SplitComma(text)

-----------------------------------------------------------------------------
(* The store *)

\* frappe.get_all(doctype, filters={field: value})
get_all(table, field, value) == SelectSeq(table, LAMBDA r : r[field] = value)

Exists(table, field, value) == \E i \in 1..Len(table) : table[i][field] = value

\* the index of the row frappe.get_doc(doctype, {field: value}) loads
DocIndex(table, field, value) ==
    CHOOSE i \in 1..Len(table) :
        /\ table[i][field] = value
        /\ \A j \in 1..(i - 1) : table[j][field] # value

Insert(doctype, key) == [op |-> "insert", doctype |-> doctype, key |-> key]

Save(doctype, key) == [op |-> "save", doctype |-> doctype, key |-> key]

\* utils.get_or_create_sopinstance: the SOPInstance table afterwards
get_or_create_sopinstance(table, uid, stored_at_aet, patient_id, accession_number) ==
    IF Exists(table, "sop_uid", uid) THEN table
    ELSE Append(table, [sop_uid |-> uid,
                        stored_at_aet |-> stored_at_aet,
                        patient_id |-> patient_id,
                        accession_number |-> accession_number,
                        created_at |-> NOW])

\* for uid in uids: utils.get_or_create_sopinstance(uid, ...)
RECURSIVE FanOut(_, _, _, _, _)
FanOut(table, uids, stored_at_aet, patient_id, accession_number) ==
    IF uids = <<>> THEN table
    ELSE FanOut(get_or_create_sopinstance(table, Head(uids), stored_at_aet,
                                          patient_id, accession_number),
                Tail(uids), stored_at_aet, patient_id, accession_number)

\* the inserts that grew the SOPInstance table from old to new
SopInserts(old, new) ==
    [i \in 1..(Len(new) - Len(old)) |-> Insert("SOPInstance", new[Len(old) + i].sop_uid)]

\* handlers.enqueue_process_ian / enqueue_process_pps, frappe.enqueue
Task(method, id) == [method |-> method, id |-> id]

enqueue(q, method, id) == Append(q, Task(method, id))

-----------------------------------------------------------------------------
(* Signature verification *)

NoHeaders == [none |-> TRUE, map |-> <<>>]

Headers(m) == [none |-> FALSE, map |-> m]

\* bool(request_headers)
TruthyHeaders(h) == ~h.none /\ DOMAIN h.map # {}

\* headers.get(name)
HeaderGet(headers, name) ==
    IF name \in DOMAIN headers THEN headers[name] ELSE TextNone

\* hmac.new(key, msg, sha256).hexdigest(): one token that names the key and the
\* message, so that distinct keys or messages give distinct digests
hexdigest(key, msg) == <<"hmac-sha256(" \o key \o ";" \o Cat(msg) \o ")">>

\* (mutant) the scheme prefix is never recognised
StartsWithSha256_Never(t) == FALSE

\* sig_header.startswith("sha256=")
StartsWithSha256(t) == Len(t) >= 2 /\ t[1] = "sha256" /\ t[2] = "="

\* sig_header.split("=", 1)[1]
AfterFirstEq(t) ==
    LET i == CHOOSE k \in 1..Len(t) : t[k] = "=" /\ \A j \in 1..(k - 1) : t[j] # "="
    IN  SubSeq(t, i + 1, Len(t))

verify_signature(headers, body_bytes) ==
    IF ~Truthy(secret) THEN TRUE
    ELSE LET sig_header == TextOr(HeaderGet(headers, "X-Signature"),
                                  HeaderGet(headers, "X-Hub-Signature"))
         IN  IF ~TruthyText(sig_header) THEN FALSE
             ELSE LET sig == IF StartsWithSha256(sig_header)
                             THEN AfterFirstEq(sig_header)
                             ELSE sig_header
                  IN  hexdigest(secret, body_bytes) = sig

-----------------------------------------------------------------------------
(* Payloads.  A payload is a record of the keys the handlers read; a key    *)
(* that is absent (or null) holds None, an absent UID list holds NoUids.    *)

ScalarKeys ==
    <<"ian_id", "pps_uid", "sps_uid", "rp_id", "source", "actor", "status",
      "availability_status", "timestamp", "created_at", "patient_id",
      "accession_number">>

UidKeys == <<"sop_instance_uids", "sop_uids", "instance_uids">>

RECURSIVE DumpScalars(_, _)
DumpScalars(payload, keys) ==
    IF keys = <<>> THEN <<>>
    ELSE (IF Head(keys) \in DOMAIN payload /\ payload[Head(keys)] # None
          THEN <<Head(keys), ":", payload[Head(keys)], ",">>
          ELSE <<>>) \o DumpScalars(payload, Tail(keys))

RECURSIVE DumpUids(_, _)
DumpUids(payload, keys) ==
    IF keys = <<>> THEN <<>>
    ELSE (IF Head(keys) \in DOMAIN payload /\ payload[Head(keys)].kind # "none"
          THEN <<Head(keys), ":", payload[Head(keys)].kind, "[">>
                   \o Join(payload[Head(keys)].items, ";") \o <<"]", ",">>
          ELSE <<>>) \o DumpUids(payload, Tail(keys))

\* json.dumps(payload).encode("utf-8")
json_dumps(payload) ==
    <<"{">> \o DumpScalars(payload, ScalarKeys) \o DumpUids(payload, UidKeys) \o <<"}">>

-----------------------------------------------------------------------------
(* Outcomes of a call *)

Returned(status, id) == [status |-> status, id |-> id, error |-> None]

Raised(error) == [status |-> "raised", id |-> None, error |-> error]

Call(op, args, headers, result) ==
    [op |-> op, args |-> args, headers |-> headers, result |-> result]

\* a call that ends without touching the store or the queue
Ends(op, args, headers, result) ==
    /\ call' = Call(op, args, headers, result)
    /\ writes' = <<>>
    /\ UNCHANGED <<secret, ian, pps, ups, sps, sop, message, queue>>

\* (mutant) create-or-update: the repeated create_ups stores its status
AlreadyExists_Overwrites(op, args, headers, id) ==
    /\ call' = Call(op, args, headers, Returned("exists", id))
    /\ writes' = <<>>
    /\ ups' = IF op = "create_ups"
              THEN [i \in 1..Len(ups) |->
                       IF ups[i].ups_id = id
                       THEN [ups[i] EXCEPT !.ups_status = args.ups_status] ELSE ups[i]]
              ELSE ups
    /\ UNCHANGED <<secret, ian, pps, sps, sop, message, queue>>

\* (mutant) the existence check answered after the worker was enqueued
AlreadyExists_Enqueued(op, args, headers, id) ==
    /\ call' = Call(op, args, headers, Returned("exists", id))
    /\ writes' = <<>>
    /\ queue' = enqueue(queue, "_process_pps", id)
    /\ UNCHANGED <<secret, ian, pps, ups, sps, sop, message>>

\* the idempotent return: {status: exists, <id>} and nothing else
AlreadyExists(op, args, headers, id) == Ends(op, args, headers, Returned("exists", id))

\* the existence lookups of the idempotency checks
IanExisting(ian_id) == get_all(ian, "ian_id", ian_id)

PpsExisting(pps_uid) == get_all(pps, "pps_uid", pps_uid)

\* (mutant) the lookup made in the wrong doctype
UpsExisting_WrongDoctype(ups_id) == get_all(pps, "pps_uid", ups_id)

UpsExisting(ups_id) == get_all(ups, "ups_id", ups_id)

-----------------------------------------------------------------------------
(* ian_mpps_handlers.ingest_ian *)

IanDoc(payload, uids) ==
    [ian_id |-> payload.ian_id,
     source |-> Or(payload.source, ""),
     sop_instance_uids |-> uids,
     availability_status |-> GetDefault(payload.availability_status, "Available"),
     timestamp |-> Or(payload.timestamp, NOW)]

\* (mutant) the gate lets every request through to the identifier check
PassesGate_Always(payload, request_headers) == TRUE

\* the request passes the signature gate of ingest_ian / ingest_mpps
PassesGate(payload, request_headers) ==
    ~(TruthyHeaders(request_headers)
      /\ ~verify_signature(request_headers.map, json_dumps(payload)))

ingest_ian(payload, request_headers) ==
    LET ian_id == payload.ian_id
        uids == normalize_uids(UidsOr(payload.sop_instance_uids, payload.sop_uids))
        sop1 == FanOut(sop, split_uids(uids), payload.source,
                       payload.patient_id, payload.accession_number)
    IN  IF ~PassesGate(payload, request_headers)
        THEN Ends("ingest_ian", payload, request_headers, Raised("Forbidden"))
        ELSE IF ~Truthy(ian_id)
        THEN Ends("ingest_ian", payload, request_headers, Raised("ValidationError"))
        ELSE IF IanExisting(ian_id) # <<>>
        THEN AlreadyExists("ingest_ian", payload, request_headers, ian_id)
        ELSE /\ ian' = Append(ian, IanDoc(payload, uids))
             /\ sop' = sop1
             /\ queue' = enqueue(queue, "_process_ian", ian_id)
             /\ writes' = <<Insert("Instance Availability Notification", ian_id)>>
                              \o SopInserts(sop, sop1)
             /\ call' = Call("ingest_ian", payload, request_headers,
                             Returned("created", ian_id))
             /\ UNCHANGED <<secret, pps, ups, sps, message>>

-----------------------------------------------------------------------------
(* ian_mpps_handlers.ingest_mpps *)

PpsDoc(payload, uids) ==
    [pps_uid |-> payload.pps_uid,
     sps |-> Or(payload.sps_uid, ""),
     rp |-> Or(payload.rp_id, ""),
     actor |-> Or(payload.actor, ""),
     status |-> GetDefault(payload.status, "COMPLETED"),
     instance_uids |-> uids,
     created_at |-> Or(payload.created_at, NOW)]

\* (mutant) the status set on the loaded document and never saved
MppsSpsUpdate_NotSaved(table, sps_uid) == table

\* (mutant) get-or-create of the referenced step: a missing one is inserted
MppsSpsUpdate_Upsert(table, sps_uid) ==
    IF ~Truthy(sps_uid) THEN table
    ELSE IF ~Exists(table, "sps_uid", sps_uid)
    THEN Append(table, [sps_uid |-> sps_uid, status |-> "Completed"])
    ELSE [table EXCEPT ![DocIndex(table, "sps_uid", sps_uid)].status = "Completed"]

\* lines 179-189: the Scheduled Procedure Step table after the cross-update
MppsSpsUpdate(table, sps_uid) ==
    IF Truthy(sps_uid) /\ Exists(table, "sps_uid", sps_uid)
                       /\ table[DocIndex(table, "sps_uid", sps_uid)].status # "Completed"
    THEN [table EXCEPT ![DocIndex(table, "sps_uid", sps_uid)].status = "Completed"]
    ELSE table

\* lines 184-186: the sps.save() calls of the cross-update
MppsSpsSaves(table, sps_uid) ==
    IF Truthy(sps_uid) /\ Exists(table, "sps_uid", sps_uid)
                       /\ table[DocIndex(table, "sps_uid", sps_uid)].status # "Completed"
    THEN <<Save("Scheduled Procedure Step", sps_uid)>>
    ELSE <<>>

ingest_mpps(payload, request_headers) ==
    LET pps_uid == payload.pps_uid
        uids == normalize_uids(payload.instance_uids)
        sop1 == FanOut(sop, split_uids(uids), payload.actor,
                       payload.patient_id, payload.accession_number)
    IN  IF ~PassesGate(payload, request_headers)
        THEN Ends("ingest_mpps", payload, request_headers, Raised("Forbidden"))
        ELSE IF ~Truthy(pps_uid)
        THEN Ends("ingest_mpps", payload, request_headers, Raised("ValidationError"))
        ELSE IF PpsExisting(pps_uid) # <<>>
        THEN AlreadyExists("ingest_mpps", payload, request_headers, pps_uid)
        ELSE /\ pps' = Append(pps, PpsDoc(payload, uids))
             /\ sps' = MppsSpsUpdate(sps, payload.sps_uid)
             /\ sop' = sop1
             /\ queue' = enqueue(queue, "_process_pps", pps_uid)
             /\ writes' = <<Insert("Performed Procedure Step", pps_uid)>>
                              \o MppsSpsSaves(sps, payload.sps_uid)
                              \o SopInserts(sop, sop1)
             /\ call' = Call("ingest_mpps", payload, request_headers,
                             Returned("created", pps_uid))
             /\ UNCHANGED <<secret, ian, ups, message>>

-----------------------------------------------------------------------------
(* frappe_dwf/frappe_dwf/api.py *)

\* (mutant) no existence check: every uid is inserted
RECURSIVE ApiFanOut_Unchecked(_, _, _)
ApiFanOut_Unchecked(table, uids, stored_at_aet) ==
    IF uids = <<>> THEN table
    ELSE ApiFanOut_Unchecked(Append(table, [sop_uid |-> Head(uids),
                                            stored_at_aet |-> stored_at_aet,
                                            patient_id |-> None,
                                            accession_number |-> None,
                                            created_at |-> NOW]),
                             Tail(uids), stored_at_aet)

\* (mutant) create-or-update: a uid already in the table takes the new
\* stored_at_aet
RECURSIVE ApiFanOut_Upsert(_, _, _)
ApiFanOut_Upsert(table, uids, stored_at_aet) ==
    IF uids = <<>> THEN table
    ELSE ApiFanOut_Upsert(
             IF Exists(table, "sop_uid", Head(uids))
             THEN [table EXCEPT ![DocIndex(table, "sop_uid", Head(uids))].stored_at_aet =
                       stored_at_aet]
             ELSE Append(table, [sop_uid |-> Head(uids),
                                 stored_at_aet |-> stored_at_aet,
                                 patient_id |-> None,
                                 accession_number |-> None,
                                 created_at |-> NOW]),
             Tail(uids), stored_at_aet)

\* the SOPInstance rows api.py inserts: for each uid not yet in the table,
\* {sop_uid, stored_at_aet, created_at}
RECURSIVE ApiFanOut(_, _, _)
ApiFanOut(table, uids, stored_at_aet) ==
    IF uids = <<>> THEN table
    ELSE ApiFanOut(IF Exists(table, "sop_uid", Head(uids)) THEN table
                   ELSE Append(table, [sop_uid |-> Head(uids),
                                       stored_at_aet |-> stored_at_aet,
                                       patient_id |-> None,
                                       accession_number |-> None,
                                       created_at |-> NOW]),
                   Tail(uids), stored_at_aet)

\* lines 13-20: the document receive_ian inserts
ReceiveIanDoc(args) ==
    [ian_id |-> args.ian_id,
     source |-> Or(args.source, ""),
     sop_instance_uids |-> UidsOrEmpty(args.sop_uids),
     availability_status |-> args.availability_status,
     timestamp |-> NOW]

receive_ian(args) ==
    LET ian_id == args.ian_id
        doc == ReceiveIanDoc(args)
        sop1 == IF TruthyUids(args.sop_uids)
                THEN ApiFanOut(sop, SplitComma(args.sop_uids.items[1]),
                               Or(args.source, ""))
                ELSE sop
    IN  IF ~Truthy(ian_id)
        THEN Ends("receive_ian", args, NoHeaders, Raised("ValidationError"))
        ELSE IF IanExisting(ian_id) # <<>>
        THEN AlreadyExists("receive_ian", args, NoHeaders, ian_id)
        ELSE /\ ian' = Append(ian, doc)
             /\ sop' = sop1
             /\ queue' = enqueue(queue, "_process_ian", ian_id)
             /\ writes' = <<Insert("Instance Availability Notification", ian_id)>>
                              \o SopInserts(sop, sop1)
             /\ call' = Call("receive_ian", args, NoHeaders, Returned("created", ian_id))
             /\ UNCHANGED <<secret, pps, ups, sps, message>>

\* the background worker of an IAN (run by Worker, which owns the queue): it
\* reads the IAN and its SOPInstances and writes nothing
_process_ian(ian_id) ==
    /\ call' = Call("_process_ian", [ian_id |-> ian_id], NoHeaders,
                    Returned("done", ian_id))
    /\ writes' = <<>>
    /\ UNCHANGED <<secret, ian, pps, ups, sps, sop, message>>

\* lines 63-72: the document create_pps inserts
CreatePpsDoc(args) ==
    [pps_uid |-> args.pps_uid,
     sps |-> Or(args.sps_uid, ""),
     rp |-> Or(args.rp_id, ""),
     actor |-> Or(args.actor, ""),
     status |-> args.status,
     instance_uids |-> UidsOrEmpty(args.instance_uids),
     created_at |-> NOW]

create_pps(args) ==
    LET pps_uid == args.pps_uid
        doc == CreatePpsDoc(args)
    IN  IF ~Truthy(pps_uid)
        THEN Ends("create_pps", args, NoHeaders, Raised("ValidationError"))
        ELSE IF PpsExisting(pps_uid) # <<>>
        THEN AlreadyExists("create_pps", args, NoHeaders, pps_uid)
        ELSE /\ pps' = Append(pps, doc)
             /\ queue' = enqueue(queue, "_process_pps", pps_uid)
             /\ writes' = <<Insert("Performed Procedure Step", pps_uid)>>
             /\ call' = Call("create_pps", args, NoHeaders, Returned("created", pps_uid))
             /\ UNCHANGED <<secret, ian, ups, sps, sop, message>>

\* lines 83-89: the Scheduled Procedure Step table after the worker's update
ProcessPpsSpsUpdate(table, doc) ==
    IF Truthy(doc.sps) /\ Exists(table, "sps_uid", doc.sps)
    THEN [table EXCEPT ![DocIndex(table, "sps_uid", doc.sps)].status =
              IF doc.status = "COMPLETED" THEN "Completed" ELSE @]
    ELSE table

\* line 87: the sps.save() calls of the worker
ProcessPpsSpsSaves(table, doc) ==
    IF Truthy(doc.sps) /\ Exists(table, "sps_uid", doc.sps)
    THEN <<Save("Scheduled Procedure Step", doc.sps)>>
    ELSE <<>>

\* the background worker of a PPS (run by Worker, which owns the queue)
_process_pps(pps_uid) ==
    IF ~Exists(pps, "pps_uid", pps_uid)
    THEN /\ call' = Call("_process_pps", [pps_uid |-> pps_uid], NoHeaders,
                         Returned("done", pps_uid))
         /\ writes' = <<>>
         /\ UNCHANGED <<secret, ian, pps, ups, sps, sop, message>>
    ELSE LET doc == pps[DocIndex(pps, "pps_uid", pps_uid)]
             sop1 == ApiFanOut(sop, SplitComma(doc.instance_uids), None)
         IN  /\ sps' = ProcessPpsSpsUpdate(sps, doc)
             /\ sop' = sop1
             /\ writes' = ProcessPpsSpsSaves(sps, doc) \o SopInserts(sop, sop1)
             /\ call' = Call("_process_pps", [pps_uid |-> pps_uid], NoHeaders,
                             Returned("done", pps_uid))
             /\ UNCHANGED <<secret, ian, pps, ups, message>>

\* (mutant) both times stamped whenever the step has started
UpsDoc_BothStamped(args) ==
    [ups_id |-> args.ups_id,
     rp |-> Or(args.rp_id, ""),
     ups_status |-> args.ups_status,
     actor |-> Or(args.actor, ""),
     instance_uids |-> IF args.instance_uids.kind = "str"
                       THEN args.instance_uids.items[1] ELSE TextNone,
     start_time |-> IF args.ups_status # "SCHEDULED" THEN NOW ELSE None,
     end_time |-> IF args.ups_status \in {"COMPLETED", "FAILED", "CANCELLED"}
                  THEN NOW ELSE None]

\* lines 108-117: the Unified Procedure Step document
UpsDoc(args) ==
    [ups_id |-> args.ups_id,
     rp |-> Or(args.rp_id, ""),
     ups_status |-> args.ups_status,
     actor |-> Or(args.actor, ""),
     instance_uids |-> IF args.instance_uids.kind = "str"
                       THEN args.instance_uids.items[1] ELSE TextNone,
     start_time |-> IF args.ups_status = "IN-PROGRESS" THEN NOW ELSE None,
     end_time |-> IF args.ups_status \in {"COMPLETED", "FAILED", "CANCELLED"}
                  THEN NOW ELSE None]

\* (mutant) the fan-out made for every status
UpsFanOut_AnyStatus(table, args) ==
    IF TruthyUids(args.instance_uids)
    THEN ApiFanOut(table, SplitComma(args.instance_uids.items[1]), None)
    ELSE table

\* lines 120-127: the SOPInstance table after create_ups
UpsFanOut(table, args) ==
    IF TruthyUids(args.instance_uids) /\ args.ups_status = "COMPLETED"
    THEN ApiFanOut(table, SplitComma(args.instance_uids.items[1]), None)
    ELSE table

create_ups(args) ==
    LET ups_id == args.ups_id
        doc == UpsDoc(args)
        sop1 == UpsFanOut(sop, args)
    IN  IF ~Truthy(ups_id)
        THEN Ends("create_ups", args, NoHeaders, Raised("ValidationError"))
        ELSE IF UpsExisting(ups_id) # <<>>
        THEN AlreadyExists("create_ups", args, NoHeaders, ups_id)
        ELSE /\ ups' = Append(ups, doc)
             /\ sop' = sop1
             /\ writes' = <<Insert("Unified Procedure Step", ups_id)>>
                              \o SopInserts(sop, sop1)
             /\ call' = Call("create_ups", args, NoHeaders, Returned("created", ups_id))
             /\ UNCHANGED <<secret, ian, pps, sps, message, queue>>

\* the task dispatcher delivers a task it was given (in any order, and any
\* number of times: delivery is at least once) and the worker it names runs
Worker ==
    \E i \in 1..Len(queue) :
        /\ IF queue[i].method = "_process_ian"
           THEN _process_ian(queue[i].id)
           ELSE _process_pps(queue[i].id)
        /\ UNCHANGED queue

-----------------------------------------------------------------------------
(* The calls the model makes *)

\* the number of primary records (IAN, PPS, UPS) the store may hold
MaxRows == 2

Secrets == {None, "k1"}

\* UID lists as the callers write them: untrimmed, with empty entries
ListAB == UidList(<< <<" ", "a">>, <<>>, <<"b", " ">> >>)

TextBA == UidText(<<"b", ",", " ", "a", ",", ",", "b">>)

IanPayload(id, src, pat, acc, list, text) ==
    [ian_id |-> id, source |-> src, sop_instance_uids |-> list,
     sop_uids |-> text, availability_status |-> None, timestamp |-> None,
     patient_id |-> pat, accession_number |-> acc]

IanPayloads ==
    {IanPayload(id, "AE1", "P1", "A1", ListAB, NoUids) : id \in {None, "", "i1", "i2"}}
    \cup {IanPayload(id, None, None, None, NoUids, TextBA) : id \in {"i1", "i2"}}
    \cup {IanPayload("i1", "AE1", None, "A1", NoUids, NoUids)}

MppsPayload(id, sps_uid, status, actor, pat, acc, uids) ==
    [pps_uid |-> id, sps_uid |-> sps_uid, rp_id |-> None, actor |-> actor,
     status |-> status, instance_uids |-> uids, created_at |-> None,
     patient_id |-> pat, accession_number |-> acc]

MppsPayloads ==
    {MppsPayload(id, "s1", st, "CT1", "P2", "A2", ListAB) :
        id \in {None, "", "p1", "p2"}, st \in {"COMPLETED", "IN PROGRESS"}}
    \cup {MppsPayload("p1", None, "COMPLETED", "CT1", "P2", "A2", ListAB),
          MppsPayload("p1", "s1", None, None, None, None, NoUids)}

\* the header values a caller may send as the signature of a payload: the
\* digest under the deployment's key or under another key, with the scheme
\* prefix
Signatures(payload) ==
    {<<"sha256", "=">> \o hexdigest(k, json_dumps(payload)) : k \in {"k1", "k2"}}

\* the request headers a caller may send with a payload
HeadersFor(payload) ==
    {NoHeaders, Headers(<<>>), Headers("Content-Type" :> <<"application/json">>)}
    \cup {Headers("X-Signature" :> v) : v \in Signatures(payload)}

\* the calls of ingest_ian / ingest_mpps: every payload without headers, and
\* the payloads of the first identifier (and those without one) with each kind
\* of headers
Requests(payloads, key) ==
    {<<p, NoHeaders>> : p \in payloads}
    \cup UNION {{<<p, h>> : h \in HeadersFor(p)} :
                    p \in {q \in payloads : q[key] # "p2" /\ q[key] # "i2"}}

ReceiveIanArgs ==
    {[ian_id |-> id, source |-> "AE2", sop_uids |-> TextBA,
      availability_status |-> "Available"] : id \in {None, "", "i1", "i2"}}
    \cup {[ian_id |-> "i1", source |-> None, sop_uids |-> NoUids,
           availability_status |-> "Available"]}

CreatePpsArgs ==
    {[pps_uid |-> id, sps_uid |-> "s1", rp_id |-> None, actor |-> "CT2",
      status |-> "COMPLETED", instance_uids |-> TextBA] : id \in {None, "", "p1", "p2"}}
    \cup {[pps_uid |-> "p1", sps_uid |-> "s1", rp_id |-> None, actor |-> "CT2",
           status |-> "IN PROGRESS", instance_uids |-> TextBA],
          [pps_uid |-> "p1", sps_uid |-> None, rp_id |-> None, actor |-> None,
           status |-> "COMPLETED", instance_uids |-> UidText(<<>>)]}

UpsStatuses == {"SCHEDULED", "IN-PROGRESS", "COMPLETED", "FAILED", "CANCELLED"}

CreateUpsArgs ==
    {[ups_id |-> id, rp_id |-> None, ups_status |-> st, actor |-> None,
      instance_uids |-> TextBA] : id \in {"", "u1"}, st \in UpsStatuses}
    \cup {[ups_id |-> id, rp_id |-> None, ups_status |-> "COMPLETED", actor |-> None,
           instance_uids |-> UidText(<<>>)] : id \in {None, "u1"}}

\* the Scheduled Procedure Steps that exist before any call (the code never
\* creates one)
SpsTables ==
    {<<>>, <<[sps_uid |-> "s1", status |-> "Scheduled"]>>,
     <<[sps_uid |-> "s1", status |-> "Completed"]>>}

\* the call leaves at most MaxRows primary records in the store
Room == Len(ian') + Len(pps') + Len(ups') <= MaxRows

NoCall == Call("none", <<>>, NoHeaders, Returned("none", None))

\* request-per-call: a call starts when the previous one has returned
Idle == call = NoCall

Init ==
    /\ secret \in Secrets
    /\ sps \in SpsTables
    /\ ian = <<>> /\ pps = <<>> /\ ups = <<>> /\ sop = <<>> /\ message = <<>>
    /\ queue = <<>>
    /\ writes = <<>>
    /\ call = NoCall
    /\ running = <<>>

IngestIan ==
    /\ Idle
    /\ \E r \in Requests(IanPayloads, "ian_id") : ingest_ian(r[1], r[2]) /\ Room
    /\ UNCHANGED running

IngestMpps ==
    /\ Idle
    /\ \E r \in Requests(MppsPayloads, "pps_uid") : ingest_mpps(r[1], r[2]) /\ Room
    /\ UNCHANGED running

ReceiveIan == Idle /\ (\E a \in ReceiveIanArgs : receive_ian(a) /\ Room) /\ UNCHANGED running

CreatePps == Idle /\ (\E a \in CreatePpsArgs : create_pps(a) /\ Room) /\ UNCHANGED running

CreateUps == Idle /\ (\E a \in CreateUpsArgs : create_ups(a) /\ Room) /\ UNCHANGED running

RunWorker == Idle /\ Worker /\ UNCHANGED running

\* the caller (or the dispatcher) takes the outcome of the call
Return ==
    /\ ~Idle
    /\ call' = NoCall
    /\ writes' = <<>>
    /\ UNCHANGED <<secret, ian, pps, ups, sps, sop, message, queue, running>>

Next ==
    \/ IngestIan \/ IngestMpps \/ ReceiveIan \/ CreatePps \/ CreateUps
    \/ RunWorker \/ Return

Spec == Init /\ [][Next]_vars

-----------------------------------------------------------------------------
(* verify_signature on its own: the secret, the headers and the body are    *)
(* drawn from bounded sets and the function is applied once.                *)

SigSecrets == {None, "", "k1", "k2"}

\* the bodies: two serialized payloads and one that is no JSON at all
SigBodies ==
    {json_dumps(IanPayload("i1", "AE1", "P1", "A1", ListAB, NoUids)),
     json_dumps(IanPayload("i2", "AE1", "P1", "A1", ListAB, NoUids)),
     <<"MSH", "|", "x">>}

\* the signature header values: digests of a body under a key, bare, with the
\* scheme prefix or with the prefix twice; the empty value; the prefix alone;
\* a value that is no digest
SigValues ==
    UNION {{hexdigest(k, b),
            <<"sha256", "=">> \o hexdigest(k, b),
            <<"sha256", "=", "sha256", "=">> \o hexdigest(k, b)} :
               k \in {"k1", "k2"}, b \in {json_dumps(IanPayload("i1", "AE1", "P1", "A1", ListAB, NoUids)), <<"MSH", "|", "x">>}}
    \cup {<<>>, <<"sha256", "=">>, <<"deadbeef">>}

\* the header mappings: none of the two signature headers, one of them, a
\* lower-case spelling, and both together
SigHeaders ==
    {<<>>, "Content-Type" :> <<"application/json">>}
    \cup {n :> v : n \in {"X-Signature", "X-Hub-Signature", "x-signature"},
                   v \in SigValues}
    \cup {("X-Signature" :> v) @@ ("X-Hub-Signature" :> w) :
              v \in {<<>>, <<"deadbeef">>,
                     hexdigest("k1", <<"MSH", "|", "x">>)},
              w \in {<<>>, <<"sha256", "=">> \o hexdigest("k1", <<"MSH", "|", "x">>)}}

\* the call has not returned yet / has returned the boolean b
Pending == [done |-> FALSE, value |-> FALSE, error |-> None]

Answered(b) == [done |-> TRUE, value |-> b, error |-> None]

\* headers.get on None, reached only when a secret is configured
CallVerifySignature(headers, body_bytes) ==
    IF headers.none /\ Truthy(secret)
    THEN [done |-> TRUE, value |-> FALSE, error |-> "AttributeError"]
    ELSE Answered(verify_signature(headers.map, body_bytes))

SigInit ==
    /\ secret \in SigSecrets
    /\ call \in {Call("verify_signature", b, h, Pending) :
                     b \in SigBodies, h \in {NoHeaders} \cup {Headers(m) : m \in SigHeaders}}
    /\ ian = <<>> /\ pps = <<>> /\ ups = <<>> /\ sps = <<>> /\ sop = <<>>
    /\ message = <<>> /\ queue = <<>> /\ writes = <<>>
    /\ running = <<>>

VerifySignature ==
    /\ call.op = "verify_signature"
    /\ call.result = Pending
    /\ call' = [call EXCEPT !.result = CallVerifySignature(call.headers, call.args)]
    /\ UNCHANGED <<secret, ian, pps, ups, sps, sop, message, queue, writes, running>>

SigNext == VerifySignature

SigSpec == SigInit /\ [][SigNext]_vars

-----------------------------------------------------------------------------
(* The gateway: frappe_dwf/api.py.  A request body is a text; a JSON body   *)
(* is the serialization of an object, an HL7 v2 body is a sequence of       *)
(* segments of '|'-delimited fields ended by CR, LF or CR LF.               *)

CR == "<CR>"

LF == "<LF>"

\* str.strip() for blanks and line ends
RECURSIVE LStripWs(_)
LStripWs(s) == IF s # <<>> /\ Head(s) \in {" ", CR, LF} THEN LStripWs(Tail(s)) ELSE s

RECURSIVE RStripWs(_)
RStripWs(s) ==
    IF s # <<>> /\ s[Len(s)] \in {" ", CR, LF}
    THEN RStripWs(SubSeq(s, 1, Len(s) - 1)) ELSE s

StripWs(s) == RStripWs(LStripWs(s))

\* re.split(r'\r\n?|\n', text)
RECURSIVE SplitLinesAcc(_, _)
SplitLinesAcc(s, cur) ==
    IF s = <<>> THEN <<cur>>
    ELSE IF Head(s) = CR
    THEN <<cur>> \o SplitLinesAcc(IF Len(s) >= 2 /\ s[2] = LF THEN Tail(Tail(s))
                                  ELSE Tail(s), <<>>)
    ELSE IF Head(s) = LF THEN <<cur>> \o SplitLinesAcc(Tail(s), <<>>)
    ELSE SplitLinesAcc(Tail(s), Append(cur, Head(s)))

SplitLines(text) == SplitLinesAcc(text, <<>>)

\* seg.split("|"), each part as a string
Parts(seg) == LET fields == Split(seg, "|") IN [i \in 1..Len(fields) |-> Cat(fields[i])]

\* the parts of the non-empty segments, in order
RECURSIVE SegmentParts(_)
SegmentParts(segments) ==
    IF segments = <<>> THEN <<>>
    ELSE IF Head(segments) = <<>> THEN SegmentParts(Tail(segments))
    ELSE <<Parts(Head(segments))>> \o SegmentParts(Tail(segments))

\* seg_map.get(name): the segments of that name, in order of appearance
SegMapGet(segs, name) == SelectSeq(segs, LAMBDA parts : parts[1] = name)

\* parts[i] with Python's index, None when i is out of range
PartAt(parts, i) == IF i < Len(parts) THEN parts[i + 1] ELSE None

\* combine(a, b) of normalize_hl7_v2
combine(a, b) == IF Truthy(a) /\ Truthy(b) THEN a \o "|" \o b ELSE Or(a, b)

Msg(message_id, message_type, payload, source_actor, destination_actor, correlation_id) ==
    [message_id |-> message_id, message_type |-> message_type, payload |-> payload,
     source_actor |-> source_actor, destination_actor |-> destination_actor,
     correlation_id |-> correlation_id]

\* frappe.generate_hash(): a value no stored Message carries
generate_hash == "#" \o ToString(Len(message) + 1)

\* the JSON values of the key 'payload'
JNull == [type |-> "null", v |-> None]

JStr(v) == [type |-> "str", v |-> v]

JDict(v) == [type |-> "dict", v |-> v]

JsonKeys ==
    <<"message_id", "message_type", "source_actor", "destination_actor",
      "correlation_id">>

RECURSIVE JsonPairs(_, _)
JsonPairs(obj, keys) ==
    IF keys = <<>> THEN <<>>
    ELSE <<Head(keys), ":", obj[Head(keys)], ",">> \o JsonPairs(obj, Tail(keys))

\* the text of a JSON object
JsonText(obj) ==
    <<"{">> \o JsonPairs(obj, JsonKeys)
            \o <<"payload", ":", obj.payload.type, obj.payload.v, "}">>

\* json.dumps(value) of a dict or list
dumps(j) == <<"json(" \o j.v \o ")">>

\* the objects the callers serialize
JsonObject(message_id, correlation_id, payload) ==
    [message_id |-> message_id, message_type |-> "ORM", source_actor |-> "OF",
     destination_actor |-> None, correlation_id |-> correlation_id,
     payload |-> payload]

JsonObjects ==
    {JsonObject(id, "c1", JStr("order")) : id \in {None, "", "m1", "m2"}}
    \cup {JsonObject("m1", "c2", JDict("d")), JsonObject("m2", None, JNull)}

IsJson(raw) == \E obj \in JsonObjects : JsonText(obj) = raw

\* json.loads(raw): the object whose text raw is
json_loads(raw) == CHOOSE obj \in JsonObjects : JsonText(obj) = raw

normalize_from_json(payload) ==
    Msg(payload.message_id, payload.message_type,
        IF payload.payload.type \in {"dict", "list"} THEN dumps(payload.payload)
        ELSE IF payload.payload.type = "null" THEN TextNone
        ELSE <<payload.payload.v>>,
        payload.source_actor, payload.destination_actor, payload.correlation_id)

\* the first segment of the text is an MSH segment
StartsWithMsh(raw) ==
    LET segs == SegmentParts(SplitLines(StripWs(raw)))
    IN  segs # <<>> /\ segs[1][1] = "MSH"

\* _safe_get_segment_field through hl7apy: field number n of the first segment
\* of that name (MSH-1 is the field separator itself), 'missing' when the
\* message has no such field
SafeGetSegmentField(segs, seg_name, n, missing) ==
    LET found == SegMapGet(segs, seg_name)
        i == IF seg_name = "MSH" THEN n - 1 ELSE n
    IN  IF found # <<>> /\ i < Len(found[1]) THEN found[1][i + 1] ELSE missing

\* normalize_hl7_v2, the hl7apy branch
NormalizeHl7apy(raw, missing) ==
    LET segs == SegmentParts(SplitLines(StripWs(raw)))
        get(seg_name, n) == SafeGetSegmentField(segs, seg_name, n, missing)
        orc_2 == get("ORC", 2)
    IN  Msg(Or(get("MSH", 10), generate_hash),
            Or(get("MSH", 9), "UNKNOWN"),
            raw,
            combine(get("MSH", 3), get("MSH", 4)),
            combine(get("MSH", 5), get("MSH", 6)),
            IF ~Truthy(orc_2) THEN get("PID", 3) ELSE orc_2)

\* normalize_hl7_v2, the fallback branch
NormalizeFallback(raw) ==
    LET segs == SegmentParts(SplitLines(StripWs(raw)))
        mshs == SegMapGet(segs, "MSH")
        msh == IF mshs # <<>> THEN mshs[1] ELSE <<>>
        orc == SegMapGet(segs, "ORC")
        pid == SegMapGet(segs, "PID")
        message_type == IF msh # <<>> /\ Len(msh) > 8 THEN msh[9] ELSE None
        message_id == IF msh # <<>> /\ Len(msh) > 9 THEN msh[10] ELSE None
        source_actor ==
            IF msh # <<>> THEN combine(PartAt(msh, 2), PartAt(msh, 3)) ELSE None
        destination_actor ==
            IF msh # <<>> THEN combine(PartAt(msh, 4), PartAt(msh, 5)) ELSE None
        correlation_id ==
            IF orc # <<>> /\ Len(orc[1]) > 1 THEN orc[1][2]
            ELSE IF pid # <<>> /\ Len(pid[1]) > 3
                 THEN (IF Len(pid[1]) > 3 THEN pid[1][4] ELSE pid[1][3])
                 ELSE None
    IN  Msg(Or(message_id, generate_hash), Or(message_type, "UNKNOWN"), raw,
            source_actor, destination_actor, correlation_id)

\* normalize_hl7_v2(raw); env tells whether hl7apy is installed and whether it
\* parses this text, and what it yields for a field the message lacks
normalize_hl7_v2(raw, env) ==
    IF raw = <<>>
    THEN Msg(generate_hash, "UNKNOWN", raw, None, None, None)
    ELSE IF env.hl7apy = "parses" THEN NormalizeHl7apy(raw, env.missing)
    ELSE NormalizeFallback(raw)

\* str.lower() of the tokens of a content type
Lower(t) ==
    CASE t = "Application/JSON" -> "application/json"
      [] t = "Text/Plain" -> "text/plain"
      [] OTHER -> t

\* (headers.get("Content-Type") or "").lower(), as the set of its tokens
ContentType(headers) ==
    LET value == HeaderGet(headers.map, "Content-Type")
    IN  IF TruthyText(value) THEN {Lower(value[i]) : i \in 1..Len(value)} ELSE {}

NoMsg == Msg(None, None, TextNone, None, None, None)

Data(message_id, status, correlation_id) ==
    [message_id |-> message_id, status |-> status, correlation_id |-> correlation_id]

Response(status, text, data, error) ==
    [status |-> status, message |-> text, data |-> data, error |-> error]

GatewayCall(raw, headers, env, fault, msg, response) ==
    [op |-> "ihe_receive_message", args |-> [raw |-> raw, env |-> env, fault |-> fault],
     headers |-> headers, msg |-> msg, result |-> response]

\* (mutant) the lookup finds nothing
MessageExisting_None(msg) == <<>>

\* frappe.db.get_all("Message", filters={"message_id": ...}) when msg has one
MessageExisting(msg) ==
    IF Truthy(msg.message_id) THEN get_all(message, "message_id", msg.message_id)
    ELSE <<>>

MessageDoc(msg, raw) ==
    [message_id |-> Or(msg.message_id, generate_hash),
     message_type |-> Or(msg.message_type, "UNKNOWN"),
     payload |-> TextOr(msg.payload, raw),
     source |-> msg.source_actor,
     destination |-> msg.destination_actor,
     correlation_id |-> msg.correlation_id,
     status |-> "received",
     received_at |-> NOW]

\* the text of a JSON value that is not an object
JsonArray == <<"[", "]">>

\* what the request and the store do to one call: nothing, or the request
\* object is missing, or the lookup, the insert or the commit raises
NoFault == "none"

Faults == {NoFault, "request", "lookup", "insert", "commit"}

\* (mutant) the handler lets the exception out
ExceptResponse_Reraised(e) == Response("<raised>", None, Data(None, None, None), e)

\* the except block: the response of a call that raised e
ExceptResponse(e) ==
    Response("500", "Failed to accept message", Data(None, None, None), e)

\* the exception raised before the existence check is answered, None when
\* the call gets that far
RaisedBeforeCheck(raw, json, msg, fault) ==
    IF fault = "request" THEN "AttributeError"
    ELSE IF json /\ raw = JsonArray THEN "AttributeError"
    ELSE IF json /\ ~IsJson(raw) THEN "JSONDecodeError"
    ELSE IF fault = "lookup" /\ Truthy(msg.message_id) THEN "OperationalError"
    ELSE None

ihe_receive_message(raw, headers, env, fault) ==
    LET json == "application/json" \in ContentType(headers)
        parsed == fault # "request" /\ (json => IsJson(raw))
        msg == IF ~parsed THEN NoMsg
               ELSE IF json THEN normalize_from_json(json_loads(raw))
               ELSE normalize_hl7_v2(raw, env)
        e == RaisedBeforeCheck(raw, json, msg, fault)
        existing == MessageExisting(msg)
        message_doc == MessageDoc(msg, raw)
        created == Response("201", "Message accepted and queued",
                            Data(message_doc.message_id, message_doc.status,
                                 message_doc.correlation_id), None)
    IN  IF e # None
        THEN /\ call' = GatewayCall(raw, headers, env, fault, msg, ExceptResponse(e))
             /\ writes' = <<>>
             /\ UNCHANGED <<secret, ian, pps, ups, sps, sop, message, queue>>
        ELSE IF existing # <<>>
        THEN /\ call' = GatewayCall(raw, headers, env, fault, msg,
                            Response("200", "Message already exists",
                                     Data(existing[1].message_id, existing[1].status,
                                          existing[1].correlation_id), None))
             /\ writes' = <<>>
             /\ UNCHANGED <<secret, ian, pps, ups, sps, sop, message, queue>>
        ELSE IF fault = "insert"
        THEN /\ call' = GatewayCall(raw, headers, env, fault, msg,
                                    ExceptResponse("ValidationError"))
             /\ writes' = <<>>
             /\ UNCHANGED <<secret, ian, pps, ups, sps, sop, message, queue>>
        ELSE IF fault = "commit"
        THEN \* the insert was made; whether the store keeps it is the store's matter
             /\ \/ message' = Append(message, message_doc)
                \/ message' = message
             /\ writes' = <<Insert("Message", message_doc.message_id)>>
             /\ call' = GatewayCall(raw, headers, env, fault, msg,
                                    ExceptResponse("OperationalError"))
             /\ UNCHANGED <<secret, ian, pps, ups, sps, sop, queue>>
        ELSE /\ message' = Append(message, message_doc)
             /\ writes' = <<Insert("Message", message_doc.message_id)>>
             /\ call' = GatewayCall(raw, headers, env, fault, msg, created)
             /\ UNCHANGED <<secret, ian, pps, ups, sps, sop, queue>>

-----------------------------------------------------------------------------
(* The deliveries the model makes to the gateway *)

\* the number of Message records the store may hold
MaxMessages == 2

Msh(app, fac, type, id) ==
    <<"MSH", "|", "^~\\&", "|", app, "|", fac, "|", "RA", "|", "RF", "|", "2025", "|",
      "|", type, "|", id, "|", "P", "|", "2.5.1">>

Hl7Order ==
    Msh("SA", "SF", "ORM^O01", "m1")
        \o <<CR, "PID", "|", "1", "|", "|", "pat1^^^H^MR", CR, "ORC", "|", "NW", "|", "ORD1">>

\* the HL7 v2 texts: an order; a second text of the same message_id with
\* another order number, ended by CR LF; a text led by a blank line; an MSH
\* with empty MSH-9, MSH-10 and ORC-2; a text without MSH; the empty text
Hl7Texts ==
    {Hl7Order,
     Msh("SA", "", "ORM^O01", "m1") \o <<CR, LF, "ORC", "|", "NW", "|", "ORD2", CR, LF>>,
     <<" ", LF>> \o Msh("", "", "ADT^A01", "m2") \o <<LF, "PID", "|", "1", "|", "|", "pat2">>,
     Msh("SA", "SF", "", "")
        \o <<CR, "ORC", "|", "NW", "|", "|", "x", CR, "PID", "|", "1", "|", "|", "pat1">>,
     <<"PID", "|", "1", "|", "|", "pat1", CR, "ORC", "|", "NW">>,
     <<>>}

TextTypes == {<<>>, "Content-Type" :> <<"text/plain">>}

JsonTypes ==
    {"Content-Type" :> <<"application/json">>,
     "Content-Type" :> <<"Application/JSON", ";", "charset=utf-8">>}

NoHl7apy == [hl7apy |-> "absent", missing |-> None]

\* hl7apy is not installed, or raises on the text, or parses a text that
\* starts with an MSH segment
Envs(raw) ==
    {NoHl7apy, [hl7apy |-> "fails", missing |-> None]}
    \cup (IF StartsWithMsh(raw)
          THEN {[hl7apy |-> "parses", missing |-> m] : m \in {None, ""}}
          ELSE {})

\* the deliveries of HL7 v2 texts: every text as text, and the order under a
\* JSON content type
Hl7Deliveries ==
    UNION {{<<raw, ct, env>> : ct \in TextTypes, env \in Envs(raw)} : raw \in Hl7Texts}
    \cup {<<Hl7Order, ct, NoHl7apy>> : ct \in JsonTypes}

\* the deliveries of JSON objects: every object as JSON, and one as text
JsonDeliveries ==
    {<<JsonText(obj), ct, NoHl7apy>> : obj \in JsonObjects, ct \in JsonTypes}
    \cup {<<JsonText(JsonObject("m1", "c1", JStr("order"))),
            "Content-Type" :> <<"text/plain">>, NoHl7apy>>}

GatewayInit ==
    /\ secret = None
    /\ ian = <<>> /\ pps = <<>> /\ ups = <<>> /\ sps = <<>> /\ sop = <<>>
    /\ message = <<>> /\ queue = <<>> /\ writes = <<>>
    /\ call = NoCall
    /\ running = <<>>

ReceiveHl7 ==
    /\ Idle
    /\ \E d \in Hl7Deliveries :
           /\ ihe_receive_message(d[1], Headers(d[2]), d[3], NoFault)
           /\ Len(message') <= MaxMessages
    /\ UNCHANGED running

ReceiveJson ==
    /\ Idle
    /\ \E d \in JsonDeliveries :
           /\ ihe_receive_message(d[1], Headers(d[2]), d[3], NoFault)
           /\ Len(message') <= MaxMessages
    /\ UNCHANGED running

GatewayNext == ReceiveHl7 \/ ReceiveJson \/ Return

GatewaySpec == GatewayInit /\ [][GatewayNext]_vars

-----------------------------------------------------------------------------
(* The gateway with a request or a store that may fail *)

\* the deliveries that may fail: the order with and without hl7apy, a text
\* without MSH-10, two JSON objects, a JSON array, a text that is not JSON
FaultDeliveries ==
    {<<Hl7Order, <<>>, env>> : env \in {NoHl7apy, [hl7apy |-> "parses", missing |-> None]}}
    \cup {<<Msh("SA", "SF", "", ""), "Content-Type" :> <<"text/plain">>, NoHl7apy>>}
    \cup {<<JsonText(JsonObject(id, "c1", JStr("order"))),
             "Content-Type" :> <<"application/json">>, NoHl7apy>> : id \in {None, "m1", "m2"}}
    \cup {<<raw, "Content-Type" :> <<"application/json">>, NoHl7apy>> :
              raw \in {JsonArray, Hl7Order}}

ReceiveFaulted ==
    /\ Idle
    /\ \E d \in FaultDeliveries, fault \in Faults :
           /\ ihe_receive_message(d[1], Headers(d[2]), d[3], fault)
           /\ Len(message') <= MaxMessages
    /\ UNCHANGED running

FaultNext == ReceiveFaulted \/ Return

FaultSpec == GatewayInit /\ [][FaultNext]_vars

-----------------------------------------------------------------------------
(* The whole store: the gateway, the ingestion handlers and the workers on  *)
(* one store, each identifier delivered more than once with other content.  *)

\* the calls made on the whole store
StoreCalls ==
    {<<"ingest_ian", p>> : p \in {IanPayload("i1", "AE1", "P1", "A1", ListAB, NoUids),
                                  IanPayload("i1", None, None, None, NoUids, TextBA)}}
    \cup {<<"ingest_mpps", MppsPayload("p1", "s1", st, "CT1", "P2", "A2", ListAB)>> :
              st \in {"COMPLETED", "IN PROGRESS"}}
    \cup {<<"receive_ian", [ian_id |-> "i1", source |-> "AE2", sop_uids |-> TextBA,
                            availability_status |-> "Available"]>>}
    \cup {<<"create_pps", [pps_uid |-> "p1", sps_uid |-> "s1", rp_id |-> None,
                           actor |-> "CT2", status |-> st, instance_uids |-> TextBA]>> :
              st \in {"COMPLETED", "IN PROGRESS"}}
    \cup {<<"create_ups", [ups_id |-> "u1", rp_id |-> None, ups_status |-> st,
                           actor |-> None, instance_uids |-> TextBA]>> :
              st \in {"SCHEDULED", "IN-PROGRESS", "COMPLETED"}}
    \cup {<<"ihe_receive_message", d>> :
              d \in {<<Hl7Order, <<>>, NoHl7apy>>,
                     <<JsonText(JsonObject("m1", "c2", JDict("d"))),
                       "Content-Type" :> <<"application/json">>, NoHl7apy>>}}
    \cup {<<"_process_pps", "p1">>, <<"_process_ian", "i1">>}

\* the handler of a call
Handle(c) ==
    CASE c[1] = "ingest_ian" -> ingest_ian(c[2], NoHeaders)
      [] c[1] = "ingest_mpps" -> ingest_mpps(c[2], NoHeaders)
      [] c[1] = "receive_ian" -> receive_ian(c[2])
      [] c[1] = "create_pps" -> create_pps(c[2])
      [] c[1] = "create_ups" -> create_ups(c[2])
      [] c[1] = "_process_pps" -> _process_pps(c[2]) /\ UNCHANGED queue
      [] c[1] = "_process_ian" -> _process_ian(c[2]) /\ UNCHANGED queue
      [] c[1] = "ihe_receive_message" ->
             ihe_receive_message(c[2][1], Headers(c[2][2]), c[2][3], NoFault)

\* the step leaves at most MaxRows primary records, Messages included
StoreRoom == Len(ian') + Len(pps') + Len(ups') + Len(message') <= MaxRows

StoreInit ==
    /\ secret = None
    /\ sps \in SpsTables
    /\ ian = <<>> /\ pps = <<>> /\ ups = <<>> /\ sop = <<>> /\ message = <<>>
    /\ queue = <<>>
    /\ writes = <<>>
    /\ call = NoCall
    /\ running = <<>>

StoreCall ==
    /\ Idle
    /\ \E c \in StoreCalls : Handle(c) /\ StoreRoom
    /\ UNCHANGED running

StoreNext == StoreCall \/ RunWorker \/ Return

StoreSpec == StoreInit /\ [][StoreNext]_vars

-----------------------------------------------------------------------------
(* normalize_hl7_v2 on its own: an HL7 v2 message is described by the       *)
(* fields of its segments, written out as text, and the text is normalized. *)

\* '|' before every field of a segment
RECURSIVE Bars(_)
Bars(fields) == IF fields = <<>> THEN <<>> ELSE <<"|">> \o Head(fields) \o Bars(Tail(fields))

\* the segments written one after the other, each ended by eol but the last
RECURSIVE Lines(_, _)
Lines(segments, eol) ==
    IF segments = <<>> THEN <<>>
    ELSE IF Len(segments) = 1 THEN segments[1]
    ELSE segments[1] \o eol \o Lines(Tail(segments), eol)

\* a message: MSH-2 .. MSH-12 (fewer when the MSH is cut short), then the
\* fields of each PID and each ORC segment, numbered from 1
Hl7Message(msh, pids, orcs, eol) == [msh |-> msh, pids |-> pids, orcs |-> orcs, eol |-> eol]

\* the text of a message
Hl7Text(m) ==
    Lines(<< <<"MSH">> \o Bars(m.msh) >>
          \o [i \in 1..Len(m.pids) |-> <<"PID">> \o Bars(m.pids[i])]
          \o [i \in 1..Len(m.orcs) |-> <<"ORC">> \o Bars(m.orcs[i])],
          m.eol)

MshFields(app, fac, rapp, rfac, type, id) ==
    << <<"^~\\&">>, app, fac, rapp, rfac, <<"2025">>, <<>>, type, id, <<"P">>, <<"2.5.1">> >>

\* the PID segments of a message: none; one without PID-3, its PID-2 empty or
\* not; one with an empty PID-3; one with PID-3; two of them
PidSegments ==
    {<<>>,
     << <<<<"1">>, <<>>>> >>,
     << <<<<"1">>, <<"alt1">>>> >>,
     << <<<<"1">>, <<>>, <<>>, <<"x">>>> >>,
     << <<<<"1">>, <<>>, <<"pat1", "^", "^", "^", "H">>>> >>,
     << <<<<"1">>, <<>>, <<"pat1">>>>, <<<<"2">>, <<>>, <<"pat2">>>> >>}

\* the ORC segments of a message: none; one without ORC-2; one with an empty
\* ORC-2; one with ORC-2; two of them
OrcSegments ==
    {<<>>,
     << <<<<"NW">>>> >>,
     << <<<<"NW">>, <<>>, <<"F1">>>> >>,
     << <<<<"NW">>, <<"ORD1">>>> >>,
     << <<<<"NW">>, <<"ORD1">>>>, <<<<"XO">>, <<"ORD2">>>> >>}

ParseMessages ==
    {Hl7Message(MshFields(app, fac, r[1], r[2], t[1], t[2]), pids, orcs, <<CR>>) :
        app \in {<<>>, <<"SA">>}, fac \in {<<>>, <<"SF">>},
        r \in {<< <<"RA">>, <<"RF">> >>, << <<>>, <<>> >>},
        t \in {<< <<"ORM", "^", "O01">>, <<"m1">> >>, << <<>>, <<>> >>},
        pids \in PidSegments, orcs \in OrcSegments}
    \cup {Hl7Message(SubSeq(MshFields(<<"SA">>, <<"SF">>, <<"RA">>, <<"RF">>,
                                      <<"ORM", "^", "O01">>, <<"m1">>), 1, cut),
                     pids, << <<<<"NW">>, <<"ORD1">>>> >>, eol) :
              cut \in {2, 4, 8, 11}, eol \in {<<LF>>, <<CR, LF>>},
              pids \in {<<>>, << <<<<"1">>, <<>>, <<"pat1">>>> >>}}

ParseInit ==
    /\ secret = None
    /\ ian = <<>> /\ pps = <<>> /\ ups = <<>> /\ sps = <<>> /\ sop = <<>>
    /\ message = <<>> /\ queue = <<>> /\ writes = <<>>
    /\ running = <<>>
    /\ \E m \in ParseMessages : \E env \in Envs(Hl7Text(m)) :
          call = [op |-> "normalize_hl7_v2",
                  args |-> [hl7 |-> m, raw |-> Hl7Text(m), env |-> env],
                  headers |-> NoHeaders, done |-> FALSE, result |-> NoMsg]

Normalize ==
    /\ call.op = "normalize_hl7_v2"
    /\ ~call.done
    /\ call' = [call EXCEPT !.done = TRUE,
                            !.result = normalize_hl7_v2(call.args.raw, call.args.env)]
    /\ UNCHANGED <<secret, ian, pps, ups, sps, sop, message, queue, writes, running>>

ParseNext == Normalize

ParseSpec == ParseInit /\ [][ParseNext]_vars

-----------------------------------------------------------------------------
(* Vocabulary of the properties *)

IngestOps == {"ingest_ian", "ingest_mpps", "receive_ian", "create_pps", "create_ups"}

SignedOps == {"ingest_ian", "ingest_mpps"}

\* the identifier key of an ingestion operation
KeyOf(op) ==
    CASE op \in {"ingest_ian", "receive_ian"} -> "ian_id"
      [] op \in {"ingest_mpps", "create_pps"} -> "pps_uid"
      [] op = "create_ups" -> "ups_id"

\* the primary table of an ingestion operation, among the three given
TableOf(op, ians, ppss, upss) ==
    CASE op \in {"ingest_ian", "receive_ian"} -> ians
      [] op \in {"ingest_mpps", "create_pps"} -> ppss
      [] op = "create_ups" -> upss

\* the identifier the call was made for
RequestedId(c) == c.args[KeyOf(c.op)]

Unique(table, field) ==
    \A i, j \in 1..Len(table) : table[i][field] = table[j][field] => i = j

\* the row of a key
Row(table, field, value) == table[DocIndex(table, field, value)]

SpsStatus(table, sps_uid) == Row(table, "sps_uid", sps_uid).status

Frame == UNCHANGED <<ian, pps, ups, sps, sop, message, queue>>

\* the signature gate turned the call away
GateRejected(c) == c.result.error = "Forbidden"

-----------------------------------------------------------------------------
(* The ingestion handlers statement by statement, calls made side by side.  *)
(* A call reads the store at its existence check and writes it at its       *)
(* insert, its cross-update, its fan-out and its enqueue; between two of    *)
(* these another call may run.                                              *)

\* the number of calls in progress at a time
MaxCalls == 2

Procs == 1..MaxCalls

NoFrame ==
    [op |-> "none", args |-> <<>>, headers |-> NoHeaders, pc |-> "idle",
     result |-> Returned("none", None), uids |-> <<>>]

\* the calls made side by side: one identifier per doctype, through both
\* entry points, and a payload without identifier
ConcurrentCalls ==
    {<<"ingest_ian", IanPayload(id, "AE1", "P1", "A1", ListAB, NoUids), NoHeaders>> :
        id \in {None, "i1"}}
    \cup {<<"ingest_mpps", MppsPayload("p1", "s1", "COMPLETED", "CT1", "P2", "A2", ListAB),
            NoHeaders>>}
    \cup {<<"receive_ian", [ian_id |-> "i1", source |-> "AE2", sop_uids |-> TextBA,
                            availability_status |-> "Available"], NoHeaders>>}
    \cup {<<"create_pps", [pps_uid |-> "p1", sps_uid |-> "s1", rp_id |-> None,
                           actor |-> "CT2", status |-> "COMPLETED",
                           instance_uids |-> TextBA], NoHeaders>>}

\* the handler up to its existence check: the outcome that ends the call
\* there, or 'passed'
Checked(op, args, headers) ==
    LET id == args[KeyOf(op)]
    IN  IF op \in SignedOps /\ ~PassesGate(args, headers) THEN Raised("Forbidden")
        ELSE IF ~Truthy(id) THEN Raised("ValidationError")
        ELSE IF get_all(TableOf(op, ian, pps, ups), KeyOf(op), id) # <<>>
        THEN Returned("exists", id)
        ELSE Returned("passed", id)

\* the document the handler inserts
PrimaryDoc(op, args) ==
    CASE op = "ingest_ian" ->
             IanDoc(args, normalize_uids(UidsOr(args.sop_instance_uids, args.sop_uids)))
      [] op = "ingest_mpps" -> PpsDoc(args, normalize_uids(args.instance_uids))
      [] op = "receive_ian" -> ReceiveIanDoc(args)
      [] op = "create_pps" -> CreatePpsDoc(args)

\* the UIDs the fan-out loop of the handler goes through
FanOutUids(op, args) ==
    CASE op = "ingest_ian" -> split_uids(PrimaryDoc(op, args).sop_instance_uids)
      [] op = "ingest_mpps" -> split_uids(PrimaryDoc(op, args).instance_uids)
      [] op = "receive_ian" ->
             IF TruthyUids(args.sop_uids) THEN SplitComma(args.sop_uids.items[1])
             ELSE <<>>
      [] op = "create_pps" -> <<>>

\* the SOPInstance the fan-out loop inserts for a uid it did not find
SopInstanceDoc(op, args, uid) ==
    CASE op = "ingest_ian" ->
             get_or_create_sopinstance(<<>>, uid, args.source, args.patient_id,
                                       args.accession_number)[1]
      [] op = "ingest_mpps" ->
             get_or_create_sopinstance(<<>>, uid, args.actor, args.patient_id,
                                       args.accession_number)[1]
      [] op = "receive_ian" -> ApiFanOut(<<>>, <<uid>>, Or(args.source, ""))[1]

\* the unique key of the doctype refuses a second record of the identifier
UniqueViolation(table, key, id) == Exists(table, key, id)

\* (mutant) the task is enqueued first and the record inserted after it
After_EnqueueFirst(op, pc) ==
    CASE pc = "check" -> "enqueue"
      [] pc = "enqueue" -> "insert"
      [] pc = "insert" -> (IF op = "ingest_mpps" THEN "sps"
                           ELSE IF op = "create_pps" THEN "done" ELSE "fanout")
      [] pc = "sps" -> "fanout"
      [] pc = "fanout" -> "done"

\* (mutant) ingest_mpps runs its fan-out first and its cross-update after it
After_FanOutFirst(op, pc) ==
    CASE pc = "check" -> "insert"
      [] pc = "insert" -> (IF op = "create_pps" THEN "enqueue" ELSE "fanout")
      [] pc = "fanout" -> (IF op = "ingest_mpps" THEN "sps" ELSE "enqueue")
      [] pc = "sps" -> "enqueue"
      [] pc = "enqueue" -> "done"

\* the statement that follows a statement of the handler
After(op, pc) ==
    CASE pc = "check" -> "insert"
      [] pc = "insert" -> (IF op = "ingest_mpps" THEN "sps"
                           ELSE IF op = "create_pps" THEN "enqueue" ELSE "fanout")
      [] pc = "sps" -> "fanout"
      [] pc = "fanout" -> "enqueue"
      [] pc = "enqueue" -> "done"

\* (mutant) the except block undoes the insert of the call
AfterExcept_RolledBack(table, key, id) == SelectSeq(table, LAMBDA row : row[key] # id)

\* the except block of ingest_ian / ingest_mpps logs and re-raises: the
\* table is left as the call made it
AfterExcept(table, key, id) == table

\* the call of process p ends with a result
Ended(p, result) == running' = [running EXCEPT ![p].pc = "done", ![p].result = result]

\* process p goes on to its next statement; after the last one it returns
\* {status: created}
GoesOn(p) ==
    LET f == running[p]
        next == After(f.op, f.pc)
    IN  IF next = "done" THEN Ended(p, Returned("created", RequestedId(f)))
        ELSE running' = [running EXCEPT ![p].pc = next]

\* a call arrives and runs to its existence check
Begin(p) ==
    \E c \in ConcurrentCalls :
        LET outcome == Checked(c[1], c[2], c[3])
        IN  /\ running[p].pc = "idle"
            /\ running' = [running EXCEPT ![p] =
                   IF outcome.status = "passed"
                   THEN [op |-> c[1], args |-> c[2], headers |-> c[3],
                         pc |-> After(c[1], "check"), result |-> NoFrame.result,
                         uids |-> FanOutUids(c[1], c[2])]
                   ELSE [op |-> c[1], args |-> c[2], headers |-> c[3],
                         pc |-> "done", result |-> outcome, uids |-> <<>>]]
            /\ UNCHANGED <<secret, ian, pps, ups, sps, sop, message, queue, writes, call>>

\* doc.insert(): refused when the identifier has a record by now
InsertPrimary(p) ==
    LET f == running[p]
        key == KeyOf(f.op)
        id == RequestedId(f)
        doc == PrimaryDoc(f.op, f.args)
    IN  /\ f.pc = "insert"
        /\ IF UniqueViolation(TableOf(f.op, ian, pps, ups), key, id)
           THEN /\ Ended(p, Raised("DuplicateEntryError"))
                /\ ian' = AfterExcept(ian, "ian_id", id)
                /\ pps' = AfterExcept(pps, "pps_uid", id)
           ELSE /\ GoesOn(p)
                /\ ian' = IF key = "ian_id" THEN Append(ian, doc) ELSE ian
                /\ pps' = IF key = "pps_uid" THEN Append(pps, doc) ELSE pps
        /\ UNCHANGED <<secret, ups, sps, sop, message, queue, writes, call>>

\* ingest_mpps: the cross-update of the Scheduled Procedure Step
UpdateSps(p) ==
    /\ running[p].pc = "sps"
    /\ sps' = MppsSpsUpdate(sps, running[p].args.sps_uid)
    /\ GoesOn(p)
    /\ UNCHANGED <<secret, ian, pps, ups, sop, message, queue, writes, call>>

\* the fan-out loop of process p is through with a uid: it goes to the next
\* one, or to the statement after the loop
NextUid(p) ==
    LET f == running[p]
        rest == Tail(f.uids)
        next == After(f.op, "fanout")
    IN  IF rest # <<>>
        THEN running' = [running EXCEPT ![p].pc = "fanout", ![p].uids = rest]
        ELSE running' = [running EXCEPT ![p].pc = next, ![p].uids = <<>>,
                                        ![p].result =
                                            IF next = "done"
                                            THEN Returned("created", RequestedId(f))
                                            ELSE @]

\* the fan-out loop of ingest_ian, ingest_mpps and receive_ian looks the uid
\* up: found, the loop goes on; not found, the insert is next
CheckSopInstance(p) ==
    LET f == running[p]
    IN  /\ f.pc = "fanout"
        /\ IF f.uids = <<>> THEN GoesOn(p)
           ELSE IF Exists(sop, "sop_uid", Head(f.uids)) THEN NextUid(p)
           ELSE running' = [running EXCEPT ![p].pc = "sopinsert"]
        /\ UNCHANGED <<secret, ian, pps, ups, sps, sop, message, queue, writes, call>>

\* the fan-out loop inserts the SOPInstance of the uid it did not find:
\* refused when the uid has a SOPInstance by now, and the exception leaves
\* the handler (ingest_ian and ingest_mpps through their except block)
InsertSopInstance(p) ==
    LET f == running[p]
        uid == Head(f.uids)
    IN  /\ f.pc = "sopinsert"
        /\ IF UniqueViolation(sop, "sop_uid", uid)
           THEN /\ Ended(p, Raised("DuplicateEntryError: SOPInstance"))
                /\ sop' = sop
           ELSE /\ NextUid(p)
                /\ sop' = Append(sop, SopInstanceDoc(f.op, f.args, uid))
        /\ ian' = AfterExcept(ian, "ian_id", RequestedId(f))
        /\ pps' = AfterExcept(pps, "pps_uid", RequestedId(f))
        /\ UNCHANGED <<secret, ups, sps, message, queue, writes, call>>

\* the enqueue of the background task
Enqueue(p) ==
    LET f == running[p]
    IN  /\ f.pc = "enqueue"
        /\ queue' = enqueue(queue,
                            IF KeyOf(f.op) = "ian_id" THEN "_process_ian" ELSE "_process_pps",
                            RequestedId(f))
        /\ GoesOn(p)
        /\ UNCHANGED <<secret, ian, pps, ups, sps, sop, message, writes, call>>

\* the enqueue raises: the handler lets the exception out (ingest_ian and
\* ingest_mpps through their except block)
EnqueueFails(p) ==
    LET f == running[p]
    IN  /\ f.pc = "enqueue"
        /\ Ended(p, Raised("EnqueueError"))
        /\ ian' = AfterExcept(ian, "ian_id", RequestedId(f))
        /\ pps' = AfterExcept(pps, "pps_uid", RequestedId(f))
        /\ UNCHANGED <<secret, ups, sps, sop, message, queue, writes, call>>

\* the caller takes the outcome of the call
Returns(p) ==
    /\ running[p].pc = "done"
    /\ running' = [running EXCEPT ![p] = NoFrame]
    /\ UNCHANGED <<secret, ian, pps, ups, sps, sop, message, queue, writes, call>>

ConcurrentInit ==
    /\ secret = None
    /\ sps \in SpsTables
    /\ ian = <<>> /\ pps = <<>> /\ ups = <<>> /\ sop = <<>> /\ message = <<>>
    /\ queue = <<>>
    /\ writes = <<>>
    /\ call = NoCall
    /\ running = [p \in Procs |-> NoFrame]

ConcurrentNext ==
    \E p \in Procs :
        \/ Begin(p) \/ InsertPrimary(p) \/ UpdateSps(p)
        \/ CheckSopInstance(p) \/ InsertSopInstance(p)
        \/ Enqueue(p) \/ EnqueueFails(p) \/ Returns(p)

ConcurrentSpec == ConcurrentInit /\ [][ConcurrentNext]_vars

-----------------------------------------------------------------------------
(* C1 *)

OnePrimaryPerId ==
    Unique(ian, "ian_id") /\ Unique(pps, "pps_uid") /\ Unique(ups, "ups_id")

\* C1 as stated: the store holds at most one primary record per ian_id /
\* pps_uid / ups_id, and every ingestion call made for an identifier that
\* already has a record returns {status: exists, <id>} with that identifier.
C1_EveryCallExists ==
    /\ []OnePrimaryPerId
    /\ [][(call'.op \in IngestOps
            /\ Exists(TableOf(call'.op, ian, pps, ups), KeyOf(call'.op), RequestedId(call')))
          => call'.result = Returned("exists", RequestedId(call'))]_vars

\* C1 amended: at most one primary record per identifier, and every ingestion
\* call made for an identifier that already has a record, unless the signature
\* gate rejects it as forbidden, returns {status: exists, <id>} with that
\* identifier.
C1_Idempotent ==
    /\ []OnePrimaryPerId
    /\ [][(call'.op \in IngestOps
            /\ Exists(TableOf(call'.op, ian, pps, ups), KeyOf(call'.op), RequestedId(call'))
            /\ ~GateRejected(call'))
          => call'.result = Returned("exists", RequestedId(call'))]_vars

C1_Witness ==
    /\ call.op \in IngestOps
    /\ call.result = Returned("exists", RequestedId(call))
    /\ Len(ian) + Len(pps) + Len(ups) = MaxRows

-----------------------------------------------------------------------------
(* C2 *)

\* the call delivered a message_id that already had a Message record
RepeatDelivery ==
    /\ call'.op = "ihe_receive_message"
    /\ call'.msg.message_id \notin {None, ""}
    /\ Exists(message, "message_id", call'.msg.message_id)

\* C2: at most one Message record exists per message_id; a delivery whose
\* message_id already has a record writes nothing and responds 200 with the
\* stored record's status and correlation_id.
C2_GatewayIdempotent ==
    /\ [] Unique(message, "message_id")
    /\ [][RepeatDelivery =>
            /\ Frame
            /\ writes' = <<>>
            /\ call'.result.status = "200"
            /\ call'.result.data =
                   Data(call'.msg.message_id,
                        Row(message, "message_id", call'.msg.message_id).status,
                        Row(message, "message_id", call'.msg.message_id).correlation_id)]_vars

\* a repeat delivery with another correlation id and another payload was
\* answered with the first delivery's correlation id
C2_Witness ==
    /\ call.op = "ihe_receive_message"
    /\ call.result.status = "200"
    /\ call.msg.correlation_id # call.result.data.correlation_id
    /\ call.args.raw # Row(message, "message_id", call.msg.message_id).payload
    /\ Len(message) = 1

-----------------------------------------------------------------------------
(* C3 *)

\* C3: an ingestion call that returns {status: exists} creates no SOPInstance,
\* changes no Scheduled Procedure Step, enqueues no task and raises no error:
\* the whole store and the task queue are as they were before the call.
C3_ExistsIsPure ==
    [][(call'.op \in IngestOps /\ call'.result.status = "exists")
       => (Frame /\ writes' = <<>> /\ call'.result.error = None)]_vars

\* an MPPS repeated for a stored pps_uid, carrying UIDs the store does not
\* hold and referring to a Scheduled Procedure Step that is not Completed
C3_Witness ==
    /\ call.op = "ingest_mpps"
    /\ call.result.status = "exists"
    /\ \E u \in 1..Len(split_uids(normalize_uids(call.args.instance_uids))) :
          ~Exists(sop, "sop_uid", split_uids(normalize_uids(call.args.instance_uids))[u])
    /\ Exists(sps, "sps_uid", call.args.sps_uid)
    /\ SpsStatus(sps, call.args.sps_uid) = "Scheduled"

-----------------------------------------------------------------------------
(* C4 *)

Blank(x) == IF x = None THEN "" ELSE x

\* the metadata the call hands to the SOPInstance get-or-create
SuppliedMeta(c) ==
    CASE c.op = "ingest_ian" ->
            <<Blank(c.args.source), c.args.patient_id, c.args.accession_number>>
      [] c.op = "ingest_mpps" ->
            <<Blank(c.args.actor), c.args.patient_id, c.args.accession_number>>
      [] c.op = "receive_ian" -> <<Blank(c.args.source), None, None>>
      [] OTHER -> <<"", None, None>>

MetaOf(row) == <<Blank(row.stored_at_aet), row.patient_id, row.accession_number>>

-----------------------------------------------------------------------------
(* C5 *)

\* C5: when a Scheduled Procedure Step with status Scheduled exists and an
\* MPPS with status COMPLETED that references it is ingested for a new
\* pps_uid, the step's status is Completed when the processing of the MPPS
\* ends (ingest_mpps returning created; the _process_pps worker of a PPS that
\* create_pps stored), and it stays Completed.
C5_CrossUpdate ==
    [][/\ (/\ call'.op = "ingest_mpps"
           /\ call'.result.status = "created"
           /\ call'.args.status = "COMPLETED"
           /\ Exists(sps, "sps_uid", call'.args.sps_uid)
           /\ SpsStatus(sps, call'.args.sps_uid) = "Scheduled")
          => SpsStatus(sps', call'.args.sps_uid) = "Completed"
       /\ (/\ call'.op = "_process_pps"
           /\ Exists(pps, "pps_uid", call'.args.pps_uid)
           /\ Row(pps, "pps_uid", call'.args.pps_uid).status = "COMPLETED"
           /\ Exists(sps, "sps_uid", Row(pps, "pps_uid", call'.args.pps_uid).sps)
           /\ SpsStatus(sps, Row(pps, "pps_uid", call'.args.pps_uid).sps) = "Scheduled")
          => SpsStatus(sps', Row(pps, "pps_uid", call'.args.pps_uid).sps) = "Completed"
       /\ \A i \in 1..Len(sps) :
             sps[i].status = "Completed"
             => Len(sps') >= i /\ sps'[i] = sps[i]]_vars

\* ingest_mpps of a COMPLETED MPPS has just completed the step it references
C5_Witness ==
    /\ call.op = "ingest_mpps"
    /\ call.result.status = "created"
    /\ call.args.status = "COMPLETED"
    /\ writes[2] = Save("Scheduled Procedure Step", "s1")
    /\ SpsStatus(sps, "s1") = "Completed"

-----------------------------------------------------------------------------
(* C6 *)

Saved(log, doctype, key) == \E i \in 1..Len(log) : log[i] = Save(doctype, key)

\* C6: when MPPS processing (ingest_mpps, the _process_pps worker) handles a
\* PPS whose referenced Scheduled Procedure Step already has status Completed,
\* it performs no save on that step.
C6_NoRedundantSave ==
    [][/\ (/\ call'.op = "ingest_mpps"
           /\ Exists(sps, "sps_uid", call'.args.sps_uid)
           /\ SpsStatus(sps, call'.args.sps_uid) = "Completed")
          => ~Saved(writes', "Scheduled Procedure Step", call'.args.sps_uid)
       /\ (/\ call'.op = "_process_pps"
           /\ Exists(pps, "pps_uid", call'.args.pps_uid)
           /\ Exists(sps, "sps_uid", Row(pps, "pps_uid", call'.args.pps_uid).sps)
           /\ SpsStatus(sps, Row(pps, "pps_uid", call'.args.pps_uid).sps) = "Completed")
          => ~Saved(writes', "Scheduled Procedure Step",
                    Row(pps, "pps_uid", call'.args.pps_uid).sps)]_vars

-----------------------------------------------------------------------------
(* C7 *)

\* the UIDs an MPPS payload lists, trimmed, without the empty entries
ListedUids(payload) == split_uids(normalize_uids(payload.instance_uids))

\* what C7 promises of a call of ingest_mpps: the PPS is stored, no Scheduled
\* Procedure Step appears or changes, every listed UID has a SOPInstance, the
\* worker is enqueued once, and the call returns created
C7_Outcome ==
    /\ call'.result = Returned("created", call'.args.pps_uid)
    /\ Len(get_all(pps', "pps_uid", call'.args.pps_uid)) = 1
    /\ Row(pps', "pps_uid", call'.args.pps_uid).sps = call'.args.sps_uid
    /\ sps' = sps
    /\ \A i \in 1..Len(ListedUids(call'.args)) :
          Exists(sop', "sop_uid", ListedUids(call'.args)[i])
    /\ queue' = Append(queue, Task("_process_pps", call'.args.pps_uid))

\* the call is ingest_mpps for a new pps_uid with an sps_uid that matches no
\* Scheduled Procedure Step
C7_Case ==
    /\ call'.op = "ingest_mpps"
    /\ call'.args.pps_uid \notin {None, ""}
    /\ ~Exists(pps, "pps_uid", call'.args.pps_uid)
    /\ call'.args.sps_uid \notin {None, ""}
    /\ ~Exists(sps, "sps_uid", call'.args.sps_uid)

-----------------------------------------------------------------------------
(* C8 *)

SigNames == {"X-Signature", "X-Hub-Signature"}

\* the header value with one leading 'sha256=' removed
Unprefixed(v) ==
    IF Len(v) >= 2 /\ SubSeq(v, 1, 2) = <<"sha256", "=">>
    THEN SubSeq(v, 3, Len(v)) ELSE v

\* the signature header of the given name carries the digest of the body
\* under the configured secret
Matches(c, name) == Unprefixed(c.headers.map[name]) = hexdigest(secret, c.args)

\* C8: verify_signature returns true for every headers value and body when no
\* secret is configured; with a secret configured it returns false when
\* neither X-Signature nor X-Hub-Signature is present, and otherwise true
\* exactly when the header value, after an optional 'sha256=' prefix is
\* removed, equals the HMAC-SHA256 hex digest of the body under the secret
\* (with both headers present: true only if one of them matches, and true if
\* both do).  With a secret configured the headers are a mapping.
C8_DecisionTable ==
    (call.op = "verify_signature" /\ call.result.done) =>
        LET present == SigNames \cap DOMAIN call.headers.map
            result == call.result.value
        IN  IF secret \in {None, ""} THEN call.result = Answered(TRUE)
            ELSE IF call.headers.none THEN TRUE
            ELSE IF call.result.error # None THEN FALSE
            ELSE IF present = {} THEN result = FALSE
            ELSE /\ result = TRUE => \E n \in present : Matches(call, n)
                 /\ (\A n \in present : Matches(call, n)) => result = TRUE

\* with a secret configured, a prefixed digest of the body was accepted
C8_Witness ==
    /\ call.op = "verify_signature"
    /\ secret = "k1"
    /\ call.result = Answered(TRUE)
    /\ DOMAIN call.headers.map = {"X-Signature"}
    /\ call.headers.map["X-Signature"] # Unprefixed(call.headers.map["X-Signature"])

-----------------------------------------------------------------------------
(* C9 *)

\* the digest of the payload under the configured secret, bare or with the
\* scheme prefix
GoodSignatures(payload) ==
    {hexdigest(secret, json_dumps(payload)),
     <<"sha256", "=">> \o hexdigest(secret, json_dumps(payload))}

\* the headers carry a valid signature of the payload
Signed(headers, payload) ==
    \E name \in {"X-Signature", "X-Hub-Signature"} \cap DOMAIN headers.map :
        headers.map[name] \in GoodSignatures(payload)

\* C9: with a secret configured, whenever the caller supplies request headers
\* (an empty mapping included) and the signature is missing or invalid,
\* ingest_ian / ingest_mpps reject with the forbidden error and create no
\* primary record, no SOPInstance, no SPS change and no enqueued task.
C9_HardGate ==
    [][(/\ call'.op \in SignedOps
        /\ secret \notin {None, ""}
        /\ ~call'.headers.none
        /\ ~Signed(call'.headers, call'.args))
       => (call'.result = Raised("Forbidden") /\ Frame /\ writes' = <<>>)]_vars

-----------------------------------------------------------------------------
(* C10 *)

\* the call was made without its required identifier
NoIdentifier(c) == c.op \in IngestOps /\ RequestedId(c) \in {None, ""}

\* C10 as stated: an ingestion call whose required identifier is absent or
\* empty is rejected with a validation error and creates no record, changes
\* no SPS and enqueues no task.
C10_ValidationError ==
    [][NoIdentifier(call')
       => (call'.result = Raised("ValidationError") /\ Frame /\ writes' = <<>>)]_vars

\* C10 amended: such a call is rejected and leaves the store and the queue
\* unchanged; the error is the validation error, except that ingest_ian /
\* ingest_mpps, which verify the signature first, raise the forbidden error
\* when a secret is configured, non-empty headers are supplied and they carry
\* no valid signature.
C10_RejectedUnchanged ==
    [][NoIdentifier(call')
       => /\ call'.result =
                 IF /\ call'.op \in SignedOps
                    /\ secret \notin {None, ""}
                    /\ DOMAIN call'.headers.map # {}
                    /\ ~Signed(call'.headers, call'.args)
                 THEN Raised("Forbidden")
                 ELSE Raised("ValidationError")
          /\ Frame
          /\ writes' = <<>>]_vars

\* a call with an empty identifier was rejected while records, SOPInstances
\* and tasks were in the store
C10_Witness ==
    /\ NoIdentifier(call)
    /\ RequestedId(call) = ""
    /\ call.result = Raised("ValidationError")
    /\ sop # <<>> /\ queue # <<>>

-----------------------------------------------------------------------------
(* C13 *)

\* the value is set (not null)
IsSet(v) == v # None

\* C13: every Unified Procedure Step record has start_time set if and only if
\* its ups_status is IN-PROGRESS and end_time set if and only if its
\* ups_status is COMPLETED, FAILED or CANCELLED; the two are never both set
\* (so for any other status both are null).
C13_UpsTemporalFields ==
    \A i \in 1..Len(ups) :
        /\ IsSet(ups[i].start_time) <=> ups[i].ups_status = "IN-PROGRESS"
        /\ IsSet(ups[i].end_time) <=> ups[i].ups_status \in {"COMPLETED", "FAILED", "CANCELLED"}
        /\ ~(IsSet(ups[i].start_time) /\ IsSet(ups[i].end_time))

\* create_ups has just stored a FAILED step: end_time stamped, start_time null
C13_Witness ==
    /\ call.op = "create_ups"
    /\ call.result.status = "created"
    /\ call.args.ups_status = "FAILED"
    /\ Row(ups, "ups_id", call.args.ups_id).end_time = NOW
    /\ Row(ups, "ups_id", call.args.ups_id).start_time = None

-----------------------------------------------------------------------------
(* C20 *)

\* create_ups has just created a Unified Procedure Step
UpsCreated == call'.op = "create_ups" /\ call'.result.status = "created"

\* every UID listed by the call has a SOPInstance after it
ListedUidsStored ==
    LET uids == ListedUids(call'.args)
    IN  \A i \in 1..Len(uids) : Exists(sop', "sop_uid", uids[i])

\* C20 as stated: whenever create_ups creates a UPS record, a SOPInstance
\* exists afterwards for every UID in its instance_uids list, for every
\* ups_status.
C20_FanOutAnyStatus == [][UpsCreated => ListedUidsStored]_vars

\* C20 amended: whenever create_ups creates a UPS record whose ups_status is
\* COMPLETED, a SOPInstance exists afterwards for every UID in its
\* instance_uids list; for every other ups_status create_ups creates no
\* SOPInstance.
C20_FanOutWhenCompleted ==
    [][UpsCreated =>
          IF call'.args.ups_status = "COMPLETED" THEN ListedUidsStored
          ELSE sop' = sop]_vars

\* a COMPLETED step listing the UIDs b, a, b was created and both are stored
C20_Witness ==
    /\ call.op = "create_ups"
    /\ call.result.status = "created"
    /\ call.args.ups_status = "COMPLETED"
    /\ ListedUids(call.args) = << <<"b">>, <<"a">>, <<"b">> >>
    /\ Exists(sop, "sop_uid", <<"a">>) /\ Exists(sop, "sop_uid", <<"b">>)
    /\ writes = <<Insert("Unified Procedure Step", "u1"),
                  Insert("SOPInstance", <<"b">>), Insert("SOPInstance", <<"a">>)>>

-----------------------------------------------------------------------------
(* C19 *)

\* an ingest_ian / ingest_mpps call without its identifier, made with a
\* secret configured and headers supplied that carry no valid signature
UnidentifiedAndUnsigned ==
    /\ call'.op \in SignedOps
    /\ RequestedId(call') \in {None, ""}
    /\ secret \notin {None, ""}
    /\ ~call'.headers.none
    /\ ~Signed(call'.headers, call'.args)

\* C19 as stated: the identifier check is made before signature verification,
\* so a request that both lacks its identifier and carries a missing or
\* invalid signature (secret configured, headers supplied) is rejected with
\* the validation error, not the forbidden error.
C19_ValidateFirst ==
    [][UnidentifiedAndUnsigned => call'.result = Raised("ValidationError")]_vars

\* C19 amended: signature verification is made before the identifier check,
\* so such a request is rejected with the forbidden error, not the validation
\* error, whenever the supplied headers are non-empty; with an empty headers
\* mapping verification is skipped and the validation error is raised.  The
\* store and the queue are unchanged either way.
C19_AuthenticateFirst ==
    [][UnidentifiedAndUnsigned =>
          /\ call'.result = IF DOMAIN call'.headers.map # {}
                            THEN Raised("Forbidden")
                            ELSE Raised("ValidationError")
          /\ Frame]_vars

\* an ingest_mpps call without pps_uid and with a signature made under
\* another key was turned away as forbidden
C19_Witness ==
    /\ call.op = "ingest_mpps"
    /\ call.args.pps_uid = None
    /\ secret = "k1"
    /\ "X-Signature" \in DOMAIN call.headers.map
    /\ ~Signed(call.headers, call.args)
    /\ call.result = Raised("Forbidden")

-----------------------------------------------------------------------------
(* C14, C15, C16: HL7 v2 field numbering.  MSH-1 is the field separator, so *)
(* MSH-n is the (n-1)th field written after 'MSH'; in every other segment  *)
(* field n is the nth field written after the segment name.                *)

\* field k of a list of written fields, null when the list is shorter
FieldOf(fields, k) == IF k <= Len(fields) THEN Cat(fields[k]) ELSE None

MshField(m, n) == FieldOf(m.msh, n - 1)

\* field n of the first segment of a list of segments, null without one
FirstField(segments, n) == IF segments = <<>> THEN None ELSE FieldOf(segments[1], n)

\* the field is there and is not empty
Present(v) == v \notin {None, ""}

\* normalize_hl7_v2 has returned
Normalized == call.op = "normalize_hl7_v2" /\ call.done

\* C14: for a raw input whose first segment is a complete MSH with non-empty
\* MSH-9 and MSH-10, normalize_hl7_v2 returns message_id = MSH-10, a
\* message_type that is the first component of MSH-9 followed by the rest of
\* the field, and payload = the raw input; with an ORC segment carrying ORC-2
\* the correlation_id is ORC-2, and source_actor / destination_actor are
\* non-null when their MSH fields are present.
C14_WellFormedMsh ==
    (/\ Normalized
     /\ Present(MshField(call.args.hl7, 9))
     /\ Present(MshField(call.args.hl7, 10)))
    => LET m == call.args.hl7
           msg == call.result
       IN  /\ msg.message_id = MshField(m, 10)
           /\ msg.message_type = m.msh[8][1] \o Cat(Tail(m.msh[8]))
           /\ msg.payload = call.args.raw
           /\ Present(FirstField(m.orcs, 2)) => msg.correlation_id = FirstField(m.orcs, 2)
           /\ (Present(MshField(m, 3)) /\ Present(MshField(m, 4)))
                  => Present(msg.source_actor)
           /\ (Present(MshField(m, 5)) /\ Present(MshField(m, 6)))
                  => Present(msg.destination_actor)

\* C15: the correlation id is ORC-2 of the first ORC segment when that value
\* is present; otherwise (ORC-2 empty or missing, or no ORC segment) it is
\* PID-3 of the first PID segment; it is null when neither is available.
C15_CorrelationOrder ==
    Normalized =>
        LET m == call.args.hl7
        IN  call.result.correlation_id =
                IF Present(FirstField(m.orcs, 2)) THEN FirstField(m.orcs, 2)
                ELSE IF Present(FirstField(m.pids, 3)) THEN FirstField(m.pids, 3)
                ELSE None

\* the actor composed of an application and a facility
Composed(application, facility) ==
    IF Present(application) /\ Present(facility) THEN application \o "|" \o facility
    ELSE IF Present(application) THEN application
    ELSE IF Present(facility) THEN facility
    ELSE None

\* C16: source_actor is composed of MSH-3 and MSH-4 and destination_actor of
\* MSH-5 and MSH-6: '<application>|<facility>' when both are present, the
\* one present part when exactly one is, and null when neither is (an empty
\* field is not present).
C16_ActorCombine ==
    Normalized =>
        /\ call.result.source_actor =
               Composed(MshField(call.args.hl7, 3), MshField(call.args.hl7, 4))
        /\ call.result.destination_actor =
               Composed(MshField(call.args.hl7, 5), MshField(call.args.hl7, 6))

-----------------------------------------------------------------------------
(* C12 *)

\* the step is a whole call of ihe_receive_message
GatewayAnswers == Idle /\ call'.op = "ihe_receive_message"

\* C12: the gateway never lets a fault out: every call of ihe_receive_message,
\* also one where the request, the JSON parsing, the normalization, the
\* existence lookup, the insert or the commit fails, responds with status
\* 200, 201 or 500; it responds 201 only when the call persisted a new
\* Message record with status 'received'; a 500 response carries the error.
C12_NoFaultPropagates ==
    [][GatewayAnswers =>
        LET r == call'.result
            last == message'[Len(message')]
        IN  /\ r.status \in {"200", "201", "500"}
            /\ r.status = "201" =>
                   /\ message' = Append(message, last)
                   /\ last.status = "received"
                   /\ last.message_id = r.data.message_id
                   /\ ~Exists(message, "message_id", last.message_id)
            /\ r.status = "500" => r.error # None]_vars

\* a call whose commit failed after its insert was answered 500 with the
\* error, the inserted record being kept by the store
C12_Witness ==
    /\ call.op = "ihe_receive_message"
    /\ call.args.fault = "commit"
    /\ call.result.status = "500"
    /\ call.result.error = "OperationalError"
    /\ Exists(message, "message_id", "m1")
    /\ call.msg.message_id = "m1"

-----------------------------------------------------------------------------
(* C11, C17, C18: calls made side by side *)

\* the call of process p ends in this step
CallEnds(p) == running[p].pc # "done" /\ running'[p].pc = "done"

\* the insert of process p is refused in this step: another call, that passed
\* the existence check as p did, has inserted the identifier in between
LosesInsert(p) == running[p].pc = "insert" /\ running'[p].pc = "done"

\* C11: when two ingestion calls for the same new identifier both pass the
\* existence check, exactly one insert succeeds (the store never holds two
\* primary records of an identifier) and the call whose insert is refused
\* returns {status: exists, <id>} rather than failing.
C11_LoserReturnsExists ==
    /\ [] OnePrimaryPerId
    /\ [][\A p \in Procs :
            LosesInsert(p) =>
                running'[p].result = Returned("exists", RequestedId(running[p]))]_vars

\* the primary record a task names
TaskRecordExists(task) ==
    IF task.method = "_process_ian" THEN Exists(ian, "ian_id", task.id)
    ELSE Exists(pps, "pps_uid", task.id)

\* the task a call enqueues
TaskOf(f) ==
    Task(IF KeyOf(f.op) = "ian_id" THEN "_process_ian" ELSE "_process_pps", RequestedId(f))

\* C17: in ingest_ian, ingest_mpps, receive_ian and create_pps the create
\* comes before the enqueue: every task in the queue names an identifier
\* whose primary record exists; a call that returns {status: created} has
\* enqueued exactly one task, and a call that ends otherwise (exists, or an
\* error) none.
C17_CreateBeforeEnqueue ==
    /\ [] (\A i \in 1..Len(queue) : TaskRecordExists(queue[i]))
    /\ [][/\ \A p \in Procs :
                CallEnds(p) =>
                    IF running'[p].result.status = "created"
                    THEN queue' = Append(queue, TaskOf(running[p]))
                    ELSE queue' = queue
          /\ queue' # queue =>
                \E p \in Procs : CallEnds(p) /\ running'[p].result.status = "created"]_vars

\* two calls for one identifier passed the existence check together: one
\* returned created and its task is the only one in the queue, the other
\* ended with an error
C17_Witness ==
    \E p, q \in Procs :
        /\ running[p].pc = "done" /\ running[p].result = Returned("created", "i1")
        /\ running[q].pc = "done" /\ running[q].result.status = "raised"
        /\ RequestedId(running[q]) = "i1"
        /\ queue = <<Task("_process_ian", "i1")>>

\* the UIDs a payload of ingest_ian / ingest_mpps lists
FrameUids(f) ==
    IF f.op = "ingest_ian"
    THEN split_uids(normalize_uids(UidsOr(f.args.sop_instance_uids, f.args.sop_uids)))
    ELSE ListedUids(f.args)

\* the enqueue of the call failed
EnqueueFailed(f) ==
    f.op \in SignedOps /\ f.pc = "done" /\ f.result.error = "EnqueueError"

\* C18: when the enqueue of ingest_ian / ingest_mpps fails, the error is
\* raised to the caller and what the call wrote before stays: the primary
\* record, the SOPInstances of the listed UIDs and, for an MPPS, the
\* Completed status of the referenced Scheduled Procedure Step.
C18_EnqueueFailureKeepsRecords ==
    \A p \in Procs :
        EnqueueFailed(running[p]) =>
            LET f == running[p]
            IN  /\ f.result.status = "raised"
                /\ Exists(TableOf(f.op, ian, pps, ups), KeyOf(f.op), RequestedId(f))
                /\ \A i \in 1..Len(FrameUids(f)) : Exists(sop, "sop_uid", FrameUids(f)[i])
                /\ (f.op = "ingest_mpps" /\ Exists(sps, "sps_uid", f.args.sps_uid))
                       => SpsStatus(sps, f.args.sps_uid) = "Completed"

\* the enqueue of an MPPS failed: its PPS, its two SOPInstances and the
\* Completed status of its Scheduled Procedure Step are stored, and the queue
\* holds no task
C18_Witness ==
    \E p \in Procs :
        /\ EnqueueFailed(running[p])
        /\ running[p].op = "ingest_mpps"
        /\ Exists(pps, "pps_uid", "p1")
        /\ Len(sop) = 2
        /\ Exists(sps, "sps_uid", "s1") /\ SpsStatus(sps, "s1") = "Completed"
        /\ queue = <<>>

-----------------------------------------------------------------------------
(* C22 *)

\* the call went through the fallback branch of normalize_hl7_v2
FallbackBranch == call.args.env.hl7apy # "parses"

\* C22: on the fallback branch, when the message has no usable ORC-2, the
\* correlation id is field index 3 of the first PID segment; when that
\* segment is too short to have an index 3, it is its field index 2.
C22_PidRule ==
    (/\ Normalized
     /\ FallbackBranch
     /\ ~Present(FirstField(call.args.hl7.orcs, 2))
     /\ call.args.hl7.pids # <<>>)
    => LET pid == call.args.hl7.pids[1]
       IN  call.result.correlation_id =
               IF Len(pid) >= 3 THEN FieldOf(pid, 3) ELSE FieldOf(pid, 2)

-----------------------------------------------------------------------------
(* C27 *)

\* every record of the old table is in the new one, as it was
WriteOnce(old, new) == Len(new) >= Len(old) /\ SubSeq(new, 1, Len(old)) = old

\* the records of the old table are those of the new one, but for their status
OnlyStatusChanges(old, new) ==
    /\ Len(new) = Len(old)
    /\ \A i \in 1..Len(old) : [new[i] EXCEPT !.status = old[i].status] = old[i]

\* C27: primary records are write-once: no gateway call, ingestion call or
\* background worker modifies or deletes an existing Message, IAN, PPS or UPS
\* record (a repeated create_ups with another ups_status leaves ups_status,
\* start_time and end_time as first stored); the only field of an existing
\* record that any operation changes is the status of a Scheduled Procedure
\* Step.
C27_WriteOnce ==
    [][/\ WriteOnce(message, message')
       /\ WriteOnce(ian, ian')
       /\ WriteOnce(pps, pps')
       /\ WriteOnce(ups, ups')
       /\ WriteOnce(sop, sop')
       /\ OnlyStatusChanges(sps, sps')]_vars

\* create_ups was repeated for a stored step with another ups_status, on a
\* store that also holds a Message
C27_Witness ==
    /\ call.op = "create_ups"
    /\ call.result.status = "exists"
    /\ Row(ups, "ups_id", call.args.ups_id).ups_status # call.args.ups_status
    /\ Len(message) = 1

-----------------------------------------------------------------------------
(* C23 *)

\* the step changes the status of the ith Scheduled Procedure Step to Completed
BecomesCompleted(i) == sps[i].status # "Completed" /\ sps'[i].status = "Completed"

\* the step is MPPS processing (ingest_mpps or _process_pps) of a stored
\* Performed Procedure Step whose status is not COMPLETED
ProcessesOtherStatus ==
    /\ call'.op \in {"ingest_mpps", "_process_pps"}
    /\ Exists(pps', "pps_uid", call'.args.pps_uid)
    /\ Row(pps', "pps_uid", call'.args.pps_uid).status # "COMPLETED"

\* C23: a Scheduled Procedure Step is marked Completed only on account of a
\* completed Performed Procedure Step: whenever MPPS processing changes an SPS
\* status to Completed, a PPS record that references that sps_uid and has
\* status COMPLETED exists; an MPPS of any other status leaves the referenced
\* SPS as it was.
C23_CompletedOnlyByCompletedPps ==
    [][/\ \A i \in 1..Len(sps) :
             BecomesCompleted(i) =>
                 \E j \in 1..Len(pps') :
                     pps'[j].sps = sps[i].sps_uid /\ pps'[j].status = "COMPLETED"
       /\ ProcessesOtherStatus => sps' = sps]_vars

-----------------------------------------------------------------------------
(* C24 *)

\* the Performed Procedure Step pps_uid is stored and its processing is done:
\* a COMPLETED step has completed the Scheduled Procedure Step it references,
\* if there is one, and each of its instance UIDs has a SOPInstance
ProcessedIn(ppss, spss, sops, pps_uid) ==
    /\ Exists(ppss, "pps_uid", pps_uid)
    /\ LET doc == Row(ppss, "pps_uid", pps_uid)
           uids == SplitComma(doc.instance_uids)
       IN  /\ (Truthy(doc.sps) /\ Exists(spss, "sps_uid", doc.sps)
                   /\ doc.status = "COMPLETED")
               => SpsStatus(spss, doc.sps) = "Completed"
           /\ \A k \in 1..Len(uids) : Exists(sops, "sop_uid", uids[k])

Processed(pps_uid) == ProcessedIn(pps, sps, sop, pps_uid)

\* C24: the background workers are idempotent under at-least-once delivery:
\* a run of _process_pps for a stored step leaves it processed, no call made
\* in between undoes that, and a further run for the same pps_uid leaves the
\* store as it is; a run for a pps_uid that is not stored, and every run of
\* _process_ian, changes nothing.
C24_WorkersIdempotent ==
    [][/\ \A j \in 1..Len(pps) :
             Processed(pps[j].pps_uid) => ProcessedIn(pps', sps', sop', pps[j].pps_uid)
       /\ call'.op = "_process_pps" =>
              LET pps_uid == call'.args.pps_uid
              IN  /\ Exists(pps, "pps_uid", pps_uid)
                         => ProcessedIn(pps', sps', sop', pps_uid)
                  /\ (Processed(pps_uid) \/ ~Exists(pps, "pps_uid", pps_uid))
                         => store' = store
       /\ call'.op = "_process_ian" => store' = store]_vars

\* _process_pps ran again: the step was stored by create_pps, which inserts
\* no SOPInstance, nothing else is stored, the SOPInstances of the step are
\* there, and this run inserted none
C24_Witness ==
    /\ call.op = "_process_pps"
    /\ ian = <<>> /\ ups = <<>> /\ Len(pps) = 1
    /\ pps[1].pps_uid = call.args.pps_uid
    /\ pps[1].actor = "CT2"
    /\ pps[1].status = "COMPLETED"
    /\ Exists(sps, "sps_uid", pps[1].sps)
    /\ Len(sop) = 2
    /\ \A k \in 1..Len(writes) : writes[k].op # "insert"
    /\ Processed(call.args.pps_uid)

\* _process_pps ran for a pps_uid that is not stored
C24_MissingRecord ==
    /\ call.op = "_process_pps"
    /\ ~Exists(pps, "pps_uid", call.args.pps_uid)

-----------------------------------------------------------------------------
(* C21, C25, C26: the fan-out of calls made side by side *)

\* the fan-out of the call failed: the SOPInstance insert was refused
FanOutFailed(f) ==
    f.pc = "done" /\ f.result = Raised("DuplicateEntryError: SOPInstance")

\* every uid the call fans out has a SOPInstance
FannedOut(f) ==
    \A k \in 1..Len(FanOutUids(f.op, f.args)) :
        Exists(sop, "sop_uid", FanOutUids(f.op, f.args)[k])

\* C21 (as stated): ingest_mpps performs the SOPInstance get-or-create of the
\* payload's UIDs before it updates the referenced Scheduled Procedure Step:
\* when a call changes the status of the step, every uid of its payload has
\* a SOPInstance, so a fan-out that fails fails before the status changed.
C21_FanOutBeforeUpdate ==
    [][\A p \in Procs :
          (running[p].op = "ingest_mpps" /\ running[p].pc = "sps" /\ sps' # sps)
              => FannedOut(running[p])]_vars

\* C21 (amended): ingest_mpps updates the referenced Scheduled Procedure Step
\* before its fan-out: while the fan-out runs, and when it has failed, a
\* stored step the payload references is already Completed.
C21_UpdateBeforeFanOut ==
    \A p \in Procs :
        LET f == running[p]
        IN  (/\ f.op = "ingest_mpps"
             /\ f.pc \in {"fanout", "sopinsert"} \/ FanOutFailed(f)
             /\ Exists(sps, "sps_uid", f.args.sps_uid))
                => SpsStatus(sps, f.args.sps_uid) = "Completed"

\* the fan-out of an ingest_mpps call failed, its Performed Procedure Step
\* is stored and the step it references is Completed
C21_Witness ==
    \E p \in Procs :
        /\ running[p].op = "ingest_mpps"
        /\ FanOutFailed(running[p])
        /\ Exists(pps, "pps_uid", "p1")
        /\ Exists(sps, "sps_uid", "s1") /\ SpsStatus(sps, "s1") = "Completed"

\* process p ends the calls made for a payload of ingest_ian / ingest_mpps:
\* its call returns created or exists in this step, no other call is in
\* progress, and the stored record is the one the payload makes
EndsRetries(p) ==
    LET f == running'[p]
    IN  /\ CallEnds(p)
        /\ f.op \in SignedOps
        /\ f.result.status \in {"created", "exists"}
        /\ \A q \in Procs \ {p} : running[q].pc \in {"idle", "done"}
        /\ Exists(TableOf(f.op, ian', pps', ups'), KeyOf(f.op), RequestedId(f))
        /\ Row(TableOf(f.op, ian', pps', ups'), KeyOf(f.op), RequestedId(f))
               = PrimaryDoc(f.op, f.args)

\* C25: a retry completes the pipeline: when a call of ingest_ian /
\* ingest_mpps returns created or exists and every call made before it for
\* the payload has ended (failed in the fan-out or in the enqueue, the
\* primary record inserted), every uid of the record has a SOPInstance and
\* a task for the record's identifier is in the queue.
C25_RetryCompletes ==
    [][\A p \in Procs :
          EndsRetries(p) =>
              LET f == running'[p]
                  uids == FanOutUids(f.op, f.args)
              IN  /\ \A k \in 1..Len(uids) : Exists(sop', "sop_uid", uids[k])
                  /\ \E i \in 1..Len(queue') : queue'[i] = TaskOf(f)]_vars

\* the SOPInstance insert of process p is refused in this step: another call
\* inserted the uid after p looked it up
LosesSopInsert(p) ==
    /\ running[p].pc = "sopinsert"
    /\ Exists(sop, "sop_uid", Head(running[p].uids))

\* C26: when the fan-outs of two calls with distinct identifiers meet on a
\* shared sop_uid (each may look the uid up before the other inserts it),
\* the store holds exactly one SOPInstance of the uid, the call whose insert
\* comes second goes on rather than failing, and its primary record stays.
C26_SharedUidFanOut ==
    /\ [] Unique(sop, "sop_uid")
    /\ [][\A p \in Procs :
            LosesSopInsert(p) =>
                /\ running'[p].result.status # "raised"
                /\ Exists(TableOf(running[p].op, ian', pps', ups'),
                          KeyOf(running[p].op), RequestedId(running[p]))]_vars

====
